---- MODULE Spec2Model ----
(***************************************************************************)
(* A model of the SEC filing analysis backend (src/backend):               *)
(*   analysis/filing_analyzer.py  FilingAnalyzer  (sections, orchestration) *)
(*   analysis/models.py           ModelClient     (the model gateway)       *)
(*   analysis/event_detector.py   EventDetector                             *)
(*   analysis/entity_linker.py    EntityLinker                              *)
(*                                                                         *)
(* Text is a sequence of one-character strings.  Three characters stand    *)
(* for longer literal pieces of text, so that a document of a few          *)
(* characters can hold several section headers:                            *)
(*    "T" = "Table I",  "R" = "Remarks",  "r" = "remarks"                  *)
(* "I" is the letter I: "Table II" is <<"T","I">>, and "Table I" is its    *)
(* prefix <<"T">>.                                                         *)
(***************************************************************************)
EXTENDS Integers, Sequences, FiniteSets, TLC

\* ------------------------------------------------------------------ bounds

\* Longest filing text of the section-extraction specification.
MaxDocLen == 5

\* Longest reply of the event detection, in pieces.
MaxReplyLen == 4

\* Longest reply of the link call, in pieces.
MaxLinkReplyLen == 3

\* Longest text handed to a parser that is called alone, in pieces.
MaxParseLen == 3

\* Most earlier filings handed to link_entities.
MaxHistory == 2

\* The characters filing texts are made of.
DocChars == {"T", "I", "R", "r", " ", "\n"}

\* Python's None where a text is expected, and the literal placeholder of
\* the assessment call; neither is made of the characters of a text.
None == <<"<None>">>

NoSummaryAvailable == <<"No summary available">>

\* A dict-valued variable that has not been assigned.
Unset == [unset |-> TRUE]

\* ------------------------------------------------------- text and patterns

Max(S) == CHOOSE m \in S : \A n \in S : n <= m

Min(S) == CHOOSE m \in S : \A n \in S : m <= n

\* All texts over cs of length at most n.
TextsUpTo(cs, n) == UNION {[1..k -> cs] : k \in 0..n}

\* \s of Python's re.
IsSpace(c) == c \in {" ", "\n", "\t"}

\* The class [\s\n:.] that follows a section header.
IsSepChar(c) == IsSpace(c) \/ c \in {":", "."}

\* Case folding of (?i) / re.IGNORECASE.
Fold(c) == CASE c = "r" -> "R"
             [] c = "i" -> "I"
             [] OTHER -> c

\* re.escape(lit), under (?i), matches d at position p.
MatchesAt(lit, d, p) ==
    /\ p + Len(lit) - 1 <= Len(d)
    /\ \A i \in 1..Len(lit) : Fold(d[p + i - 1]) = Fold(lit[i])

\* $ without re.MULTILINE: the end of the text, or just before a final newline.
AtEnd(d, p) == p = Len(d) + 1 \/ (p = Len(d) /\ d[p] = "\n")

\* str.strip() of d[from..to], as the span that is left (from > to: empty).
StripSpan(d, from, to) ==
    LET keep == {i \in from..to : ~IsSpace(d[i])}
    IN  IF keep = {} THEN [from |-> from, to |-> from - 1]
        ELSE [from |-> Min(keep), to |-> Max(keep)]

\* str.strip().
Strip(d) ==
    LET s == StripSpan(d, 1, Len(d)) IN SubSeq(d, s.from, s.to)

\* ------------------------------------------- FilingAnalyzer._extract_sections

\* SECTIONS_OF_INTEREST: filing type -> section headers, in catalog order.
\* The headers of "10-K", "10-Q" and "8-K" are one character each here.
SECTIONS_OF_INTEREST(filing_type) ==
    CASE filing_type = "4" ->
           << [name |-> "Table I", chars |-> <<"T">>],
              [name |-> "Table II", chars |-> <<"T", "I">>],
              [name |-> "Remarks", chars |-> <<"R">>] >>
      [] filing_type = "10-Q" ->
           << [name |-> "Management's Discussion and Analysis", chars |-> <<"M">>],
              [name |-> "Financial Statements", chars |-> <<"F">>],
              [name |-> "Controls and Procedures", chars |-> <<"C">>],
              [name |-> "Risk Factors", chars |-> <<"K">>] >>
      [] OTHER -> << >>

\* The lookahead (?=(?:h1|h2|...)|$) at position p.
LookaheadAt(target_sections, d, p) ==
    \/ \E i \in 1..Len(target_sections) : MatchesAt(target_sections[i].chars, d, p)
    \/ AtEnd(d, p)

\* One match attempt of the section pattern at position p:
\*   header [\s\n:.]* ( [^\n]+ [\n] .*? ) (?= any header | $ )
\* [\s\n:.]* is greedy and gives characters back until [^\n]+[\n] can match;
\* [^\n]+ runs to the first newline; .*? stops at the first position where the
\* lookahead holds.  from..to is group 1, next is where the match ends.
SectionMatchAt(header, target_sections, d, p) ==
    LET q == p + Len(header)
        seps == {k \in 0..(Len(d) + 1 - q) : \A i \in q..(q + k - 1) : IsSepChar(d[i])}
        LineAt(r) == /\ r <= Len(d)
                     /\ d[r] # "\n"
                     /\ \E n \in (r + 1)..Len(d) : d[n] = "\n"
        ks == {k \in seps : LineAt(q + k)}
    IN  IF ~MatchesAt(header, d, p) \/ ks = {}
        THEN [ok |-> FALSE, from |-> 0, to |-> 0, next |-> 0]
        ELSE LET r == q + Max(ks)
                 nl == Min({n \in (r + 1)..Len(d) : d[n] = "\n"})
                 e == Min({x \in (nl + 1)..(Len(d) + 1) : LookaheadAt(target_sections, d, x)})
             IN  [ok |-> TRUE, from |-> r, to |-> e - 1, next |-> e]

\* pattern.findall(filing_text): the group-1 spans of the successive matches,
\* scanning from position p.
RECURSIVE SectionFindAll(_, _, _, _)
SectionFindAll(header, target_sections, d, p) ==
    LET starts == {s \in p..Len(d) : SectionMatchAt(header, target_sections, d, s).ok}
    IN  IF starts = {} THEN << >>
        ELSE LET m == SectionMatchAt(header, target_sections, d, Min(starts))
             IN  <<m>> \o SectionFindAll(header, target_sections, d, m.next)

\* The span of filing_text that sections[section] holds: matches[0].strip().
SectionSpan(header, target_sections, d) ==
    LET matches == SectionFindAll(header, target_sections, d, 1)
    IN  StripSpan(d, matches[1].from, matches[1].to)

\* _extract_sections with the whole-filing fallback stripped like a section.
ExtractSections_StripsFallback(filing_text, filing_type) ==
    LET target_sections == SECTIONS_OF_INTEREST(filing_type)
        Matched(i) == SectionFindAll(target_sections[i].chars, target_sections,
                                     filing_text, 1) # << >>
        Item(i) == LET s == SectionSpan(target_sections[i].chars, target_sections, filing_text)
                   IN  [name |-> target_sections[i].name,
                        text |-> SubSeq(filing_text, s.from, s.to)]
        RECURSIVE Items(_)
        Items(i) == IF i > Len(target_sections) THEN << >>
                    ELSE (IF Matched(i) THEN <<Item(i)>> ELSE << >>) \o Items(i + 1)
    IN  IF target_sections = << >>
        THEN << [name |-> "complete_filing", text |-> Strip(filing_text)] >>
        ELSE Items(1)

\* _extract_sections keeping the last match of a header instead of the first.
ExtractSections_KeepsLastMatch(filing_text, filing_type) ==
    LET target_sections == SECTIONS_OF_INTEREST(filing_type)
        Matches(i) == SectionFindAll(target_sections[i].chars, target_sections,
                                     filing_text, 1)
        Item(i) == LET last == Matches(i)[Len(Matches(i))]
                       s == StripSpan(filing_text, last.from, last.to)
                   IN  [name |-> target_sections[i].name,
                        text |-> SubSeq(filing_text, s.from, s.to)]
        RECURSIVE Items(_)
        Items(i) == IF i > Len(target_sections) THEN << >>
                    ELSE (IF Matches(i) # << >> THEN <<Item(i)>> ELSE << >>) \o Items(i + 1)
    IN  IF target_sections = << >>
        THEN << [name |-> "complete_filing", text |-> filing_text] >>
        ELSE Items(1)

\* _extract_sections with the sections inserted in the order in which their
\* first matches start in the document.
ExtractSections_DocumentOrder(filing_text, filing_type) ==
    LET target_sections == SECTIONS_OF_INTEREST(filing_type)
        Matches(i) == SectionFindAll(target_sections[i].chars, target_sections,
                                     filing_text, 1)
        found == {i \in 1..Len(target_sections) : Matches(i) # << >>}
        Item(i) == LET s == SectionSpan(target_sections[i].chars, target_sections, filing_text)
                   IN  [name |-> target_sections[i].name,
                        text |-> SubSeq(filing_text, s.from, s.to)]
        Before(i, j) == \/ Matches(i)[1].from < Matches(j)[1].from
                        \/ Matches(i)[1].from = Matches(j)[1].from /\ i <= j
        RECURSIVE Ordered(_)
        Ordered(S) == IF S = {} THEN << >>
                      ELSE LET i == CHOOSE i \in S : \A j \in S : Before(i, j)
                           IN  <<Item(i)>> \o Ordered(S \ {i})
    IN  IF target_sections = << >>
        THEN << [name |-> "complete_filing", text |-> filing_text] >>
        ELSE Ordered(found)

\* _extract_sections: the dict, as the sequence of its items in insertion order.
ExtractSections(filing_text, filing_type) ==
    LET target_sections == SECTIONS_OF_INTEREST(filing_type)
        Matched(i) == SectionFindAll(target_sections[i].chars, target_sections,
                                     filing_text, 1) # << >>
        Item(i) == LET s == SectionSpan(target_sections[i].chars, target_sections, filing_text)
                   IN  [name |-> target_sections[i].name,
                        text |-> SubSeq(filing_text, s.from, s.to)]
        RECURSIVE Items(_)
        Items(i) == IF i > Len(target_sections) THEN << >>
                    ELSE (IF Matched(i) THEN <<Item(i)>> ELSE << >>) \o Items(i + 1)
    IN  IF target_sections = << >>
        THEN << [name |-> "complete_filing", text |-> filing_text] >>
        ELSE Items(1)

\* ------------------------------------------------- ModelClient.analyze_text

\* dict.get(key, default).
Get(d, key, default) == IF key \in DOMAIN d THEN d[key] ELSE default

\* What one HTTP exchange with the model API comes to:
\*   http 200 with choices[0].message.content = content (a string, or JSON null),
\*   http with another status, an exception that `except Exception` catches
\*   ("raises"), or one that it does not catch, such as asyncio.CancelledError
\*   ("escape").
Reply(kind, status, content) == [kind |-> kind, status |-> status, content |-> content]

Replies(contents) ==
    {Reply("http", 200, c) : c \in contents}
        \cup {Reply("http", 500, << >>), Reply("raises", 0, << >>), Reply("escape", 0, << >>)}

\* The exchange has not ended.
InFlight == Reply("inflight", 0, << >>)

\* The exchange ended with HTTP 200 and a body.
Delivered(reply) == reply.kind = "http" /\ reply.status = 200

\* prompt_template.format(text=text[:100000]) raises: text is None (TypeError), or
\* the template holds a brace that is not the {text} field.
FormatRaises(template_braces, text) == template_braces \/ text = None

\* The dict analyze_text returns for a reply it does not let escape.
AnalyzeTextResult(reply, task_type) ==
    IF reply.kind = "http" /\ reply.status # 200
    THEN [success |-> FALSE, error |-> "API error", details |-> "error_text"]
    ELSE IF reply.kind = "http"
    THEN [success |-> TRUE, task_type |-> task_type, analysis |-> reply.content]
    ELSE [success |-> FALSE, error |-> "Processing error", details |-> "str(e)"]

\* ------------------------------------------- the parsers of model replies
\* A reply is a sequence of pieces: the single characters "\n", " ", "-", "*"
\* and ":", the list marker "1.", and whole clauses such as
\* "risk level: critical.".  A clause starts with a letter and ends with "."
\* or ",", so a pattern that matches inside a clause never runs into the next
\* piece, and what each pattern captures in a clause is tabled below.

\* re.search found nothing.
NoMatch == "<no match>"

\* len(text).
RECURSIVE CharLen(_)
CharLen(text) == IF text = << >> THEN 0 ELSE Len(Head(text)) + CharLen(Tail(text))

\* (?:\d+\.|\*|\-): what starts an item of a list.
IsMarker(piece) == piece \in {"1.", "*", "-"}

\* re.split(r'\n\s*(?:\d+\.|\*|\-)\s*', text): the leftmost separator starts at
\* the first newline that only white space parts from a marker, and ends after
\* the white space that follows the marker.
RECURSIVE SplitBlocks(_)
SplitBlocks(text) ==
    LET MarkerAfter(p) == {m \in (p + 1)..Len(text) :
                              /\ IsMarker(text[m])
                              /\ \A k \in (p + 1)..(m - 1) : IsSpace(text[k])}
        starts == {p \in 1..Len(text) : text[p] = "\n" /\ MarkerAfter(p) # {}}
    IN  IF starts = {} THEN <<text>>
        ELSE LET p == Min(starts)
                 m == Min(MarkerAfter(p))
                 rest == {e \in (m + 1)..(Len(text) + 1) :
                             \A k \in (m + 1)..(e - 1) : IsSpace(text[k])}
             IN  <<SubSeq(text, 1, p - 1)>>
                     \o SplitBlocks(SubSeq(text, Max(rest), Len(text)))

\* ------------------------------------------------ EventDetector._parse_events

\* EVENT_CATEGORIES, in declaration order.
EVENT_CATEGORIES ==
    << "Management Change", "Acquisition/Merger", "Divestiture", "Financial Results",
       "Regulatory Issue", "Legal Settlement", "Stock Buyback", "Dividend Announcement",
       "Default/Bankruptcy", "Strategic Partnership", "Product Launch", "Restructuring",
       "Insider Trading", "Accounting Change", "Other Material Event" >>

\* r'no significant events|no events detected' with re.IGNORECASE, in a piece.
SaysNoEvents(piece) ==
    piece \in {"No significant events detected.", "no events detected."}

\* The categories a piece names as whole words (\b...\b, re.IGNORECASE).
CategoriesIn(piece) ==
    CASE piece = "Management change and restructuring." ->
             {"Management Change", "Restructuring"}
      [] piece = "Financial results." -> {"Financial Results"}
      [] OTHER -> {}

\* r'risk level[^\w]*:?\s*(\w+)' with re.IGNORECASE, then str.capitalize().
RiskLevelIn(piece) ==
    CASE piece = "risk level: critical." -> "Critical"
      [] piece = "Risk Level: HIGH." -> "High"
      [] OTHER -> NoMatch

\* r'market impact[^\w]*:?\s*(\w+)' with re.IGNORECASE, then str.capitalize().
MarketImpactIn(piece) ==
    CASE piece = "Market impact: high." -> "High"
      [] OTHER -> NoMatch

\* r'financial impact[^\w]*:?\s*(\w+)' with re.IGNORECASE, then str.capitalize().
FinancialImpactIn(piece) ==
    CASE piece = "Financial impact: LOW." -> "Low"
      [] OTHER -> NoMatch

\* r'(?:entity|entities|company|person|organization)[^\w]*:?\s*([^,\n]+)',
\* stripped: what a piece names.
EventEntityIn(piece) ==
    CASE piece = "Company: Acme," -> "Acme"
      [] OTHER -> NoMatch

\* _parse_links: r'(?:entity|company|person|organization):\s*([^,\n]+)', stripped.
LinkEntityIn(piece) ==
    CASE piece = "Company: Acme," -> "Acme"
      [] piece = "person: Tim Cook," -> "Tim Cook"
      [] OTHER -> NoMatch

\* _parse_links: r'(?:relationship|connection|link):\s*([^,\n]+)', stripped.
RelationshipIn(piece) ==
    CASE piece = "Relationship: supplier," -> "supplier"
      [] OTHER -> NoMatch

\* _parse_entities: r'(?:entity|name|company|person):\s*([^,\n]+)', stripped.
EntityNameIn(piece) ==
    CASE piece = "Company: Acme," -> "Acme"
      [] piece = "person: Tim Cook," -> "Tim Cook"
      [] OTHER -> NoMatch

\* _parse_entities: r'(?:type|category):\s*([^,\n]+)', stripped.
EntityTypeIn(piece) ==
    CASE piece = "Type: company," -> "company"
      [] OTHER -> NoMatch

\* _parse_entities: r'(?:role|function|position):\s*([^,\n]+)', stripped.
EntityRoleIn(piece) ==
    CASE piece = "Role: filer," -> "filer"
      [] OTHER -> NoMatch

\* What the pattern of a field captures in a piece.
Capture(field, piece) ==
    CASE field = "risk_level" -> RiskLevelIn(piece)
      [] field = "market_impact" -> MarketImpactIn(piece)
      [] field = "financial_impact" -> FinancialImpactIn(piece)
      [] field = "event_entity" -> EventEntityIn(piece)
      [] field = "link_entity" -> LinkEntityIn(piece)
      [] field = "relationship_type" -> RelationshipIn(piece)
      [] field = "entity_name" -> EntityNameIn(piece)
      [] field = "entity_type" -> EntityTypeIn(piece)
      [] field = "entity_role" -> EntityRoleIn(piece)

\* re.search: the capture in the first piece of the block that has one.
FirstCapture(block, field) ==
    LET hits == {i \in 1..Len(block) : Capture(field, block[i]) # NoMatch}
    IN  IF hits = {} THEN NoMatch ELSE Capture(field, block[Min(hits)])

\* re.findall: the captures of the block, in order.
CapturesIn(block, field) ==
    LET Hit(piece) == Capture(field, piece) # NoMatch
        hits == SelectSeq(block, Hit)
    IN  [i \in 1..Len(hits) |-> Capture(field, hits[i])]

\* The category that the block names first, in the order of the block.
EventCategory_FirstInBlock(block) ==
    LET naming == {i \in 1..Len(block) : CategoriesIn(block[i]) # {}}
        first == CategoriesIn(block[Min(naming)])
    IN  IF naming = {} THEN "Other Material Event"
        ELSE EVENT_CATEGORIES[Min({c \in 1..Len(EVENT_CATEGORIES) :
                                      EVENT_CATEGORIES[c] \in first})]

\* The first category of EVENT_CATEGORIES that the block names, or the default.
EventCategory(block) ==
    LET named == {c \in 1..Len(EVENT_CATEGORIES) :
                     \E i \in 1..Len(block) : EVENT_CATEGORIES[c] \in CategoriesIn(block[i])}
    IN  IF named = {} THEN "Other Material Event" ELSE EVENT_CATEGORIES[Min(named)]

OrDefault(match, default) == IF match = NoMatch THEN default ELSE match

\* The event dict of one block.
EventOf(block) ==
    [description |-> block,
     category |-> EventCategory(block),
     entities_involved |-> CapturesIn(block, "event_entity"),
     financial_impact |-> OrDefault(FirstCapture(block, "financial_impact"), "Unknown"),
     market_impact |-> OrDefault(FirstCapture(block, "market_impact"), "Unknown"),
     risk_level |-> OrDefault(FirstCapture(block, "risk_level"), "Medium")]

\* The blocks that make a record: stripped, not empty, at least 20 characters.
RECURSIVE KeptBlocks(_, _)
KeptBlocks(blocks, min_length) ==
    IF blocks = << >> THEN << >>
    ELSE LET block == Strip(Head(blocks))
         IN  (IF block = << >> \/ CharLen(block) < min_length THEN << >> ELSE <<block>>)
                 \o KeptBlocks(Tail(blocks), min_length)

\* _parse_events that does not look for the "no events" phrase.
ParseEvents_IgnoresNoEvents(detection_text) ==
    LET blocks == KeptBlocks(SplitBlocks(detection_text), 20)
    IN  [i \in 1..Len(blocks) |-> EventOf(blocks[i])]

\* _parse_events.
ParseEvents(detection_text) ==
    IF \E i \in 1..Len(detection_text) : SaysNoEvents(detection_text[i])
    THEN << >>
    ELSE LET blocks == KeptBlocks(SplitBlocks(detection_text), 20)
         IN  [i \in 1..Len(blocks) |-> EventOf(blocks[i])]

\* ------------------------------------------------ EventDetector.detect_events

\* The prompt of detect_events holds a brace that is not the {text} field: the
\* summary and the assessment of a given analysis are pasted into the template.
HasBrace(text) == \E i \in 1..Len(text) : text[i] \in {"{", "}"}

DetectPromptBraces(analysis) ==
    /\ analysis # Unset
    /\ Get(analysis, "summary", << >>) # << >>
    /\ \/ HasBrace(Get(analysis, "summary", << >>))
       \/ HasBrace(Get(analysis, "overall_assessment", << >>))

\* has_critical_events computed from the market impact.
HasCriticalEvents_ReadsMarketImpact(events) ==
    \E i \in 1..Len(events) : events[i].market_impact = "Critical"

\* any(e.get("risk_level") == "Critical" for e in detected_events)
HasCriticalEvents(events) == \E i \in 1..Len(events) : events[i].risk_level = "Critical"

\* any(e.get("market_impact") == "High" for e in detected_events)
HasHighImpactEvents(events) == \E i \in 1..Len(events) : events[i].market_impact = "High"

\* The dict detect_events returns.
EventResult(metadata, detected_events) ==
    [filing_id |-> Get(metadata, "accession_number", "unknown"),
     filing_type |-> Get(metadata, "form_type", "unknown"),
     events |-> detected_events,
     event_count |-> Len(detected_events),
     has_critical_events |-> HasCriticalEvents(detected_events),
     has_high_impact_events |-> HasHighImpactEvents(detected_events)]

\* ------------------------------------------------- EntityLinker._parse_links

\* r'significant|important|critical|major' with re.IGNORECASE.
HasHighWord(piece) == piece \in {"This is a major change.", "risk level: critical.",
                                 "No significant events detected."}

\* r'minor|small|slight' with re.IGNORECASE.
HasLowWord(piece) == piece \in {"Only a minor change."}

Significance(block) ==
    IF \E i \in 1..Len(block) : HasHighWord(block[i]) THEN "high"
    ELSE IF \E i \in 1..Len(block) : HasLowWord(block[i]) THEN "low"
    ELSE "medium"

\* The link dict of one block.
LinkOf(block) ==
    [description |-> block,
     entities_involved |-> CapturesIn(block, "link_entity"),
     relationship_type |-> OrDefault(FirstCapture(block, "relationship_type"), "related"),
     confidence |-> "medium",
     significance |-> Significance(block)]

\* _parse_links.
ParseLinks(link_text) ==
    LET blocks == KeptBlocks(SplitBlocks(link_text), 20)
    IN  [i \in 1..Len(blocks) |-> LinkOf(blocks[i])]

\* ----------------------------------------------- EntityLinker._parse_entities

\* text[:n], as the pieces it reaches into and the number of characters: the
\* first chars characters of the pieces.
FirstChars(text, n) ==
    LET reach == {k \in 0..Len(text) : CharLen(SubSeq(text, 1, k)) >= n}
    IN  IF reach = {} THEN [pieces |-> text, chars |-> CharLen(text)]
        ELSE [pieces |-> SubSeq(text, 1, Min(reach)), chars |-> n]

\* block.split('\n')[0]
FirstLine(block) ==
    LET newlines == {i \in 1..Len(block) : block[i] = "\n"}
    IN  IF newlines = {} THEN block ELSE SubSeq(block, 1, Min(newlines) - 1)

\* The name of an entity: what the name pattern captures, or the first 50
\* characters of the stripped first line of the block.
EntityName(block) ==
    LET name_match == FirstCapture(block, "entity_name")
    IN  IF name_match # NoMatch
        THEN [pieces |-> <<name_match>>, chars |-> Len(name_match)]
        ELSE FirstChars(Strip(FirstLine(block)), 50)

\* An entity dict that holds type and role only when the block labels them.
EntityOf_OmitsDefaults(block) ==
    LET Field(key, field) == IF FirstCapture(block, field) = NoMatch
                             THEN << >>
                             ELSE <<FirstCapture(block, field)>>
        type == Field("type", "entity_type")
        role == Field("role", "entity_role")
    IN  [key \in {"name", "context"}
                 \cup (IF type = << >> THEN {} ELSE {"type"})
                 \cup (IF role = << >> THEN {} ELSE {"role"}) |->
            CASE key = "name" -> EntityName(block)
              [] key = "context" -> block
              [] key = "type" -> type[1]
              [] key = "role" -> role[1]]

\* The entity dict of one block.
EntityOf(block) ==
    [name |-> EntityName(block),
     type |-> OrDefault(FirstCapture(block, "entity_type"), "unknown"),
     role |-> OrDefault(FirstCapture(block, "entity_role"), "mentioned"),
     context |-> block]

\* text.split('\n'), as blocks.
RECURSIVE SplitLines(_)
SplitLines(text) ==
    LET newlines == {i \in 1..Len(text) : text[i] = "\n"}
    IN  IF newlines = {} THEN <<text>>
        ELSE <<SubSeq(text, 1, Min(newlines) - 1)>>
                 \o SplitLines(SubSeq(text, Min(newlines) + 1, Len(text)))

\* _parse_entities that takes every line for a block.
ParseEntities_SplitsLines(extraction_text) ==
    LET blocks == KeptBlocks(SplitLines(extraction_text), 0)
    IN  [i \in 1..Len(blocks) |-> EntityOf(blocks[i])]

\* _parse_entities: every block that is not empty makes a record.
ParseEntities(extraction_text) ==
    LET blocks == KeptBlocks(SplitBlocks(extraction_text), 0)
    IN  [i \in 1..Len(blocks) |-> EntityOf(blocks[i])]

\* A parser is handed None instead of a text: re.split and re.search raise
\* TypeError.
ParserRaises(text) == text = None

\* -------------------------------------------------- EntityLinker.link_entities

\* link_entities that asks the model also when there is no history.
ShortCircuits_Never(historical) == FALSE

\* `if not historical_entities`: no history, so no model call.
ShortCircuits(historical) == historical = << >>

\* The dict link_entities returns without a model call.
EmptyLinkResult(current) ==
    [filing_id |-> Get(current, "filing_id", "unknown"),
     links |-> << >>,
     new_entities |-> Get(current, "raw_entities", << >>),
     link_timestamp |-> "datetime.now().isoformat()"]

\* The dict link_entities returns after the model call.
LinkResult(current, link_text) ==
    [filing_id |-> Get(current, "filing_id", "unknown"),
     links |-> ParseLinks(link_text),
     link_text |-> link_text,
     new_entities |-> Get(current, "raw_entities", << >>),
     link_timestamp |-> "datetime.now().isoformat()"]

\* historical_entities[-10:]: the last 10 filings of the history.
HistoricalContext_KeepsLast(historical) ==
    LET n == Len(historical)
    IN  [i \in 1..(IF n < 10 THEN n ELSE 10) |-> historical[i + (IF n < 10 THEN 0 ELSE n - 10)]]

\* historical_entities[:10]: the filings the prompt names.
HistoricalContext(historical) ==
    [i \in 1..(IF Len(historical) < 10 THEN Len(historical) ELSE 10) |-> historical[i]]

\* ---------------------------------------- FilingAnalyzer._analyze_section

\* _analyze_section reporting success whatever analyze_text returned.
SectionAnalysis_AlwaysSuccess(section_name, analysis_result) ==
    [section_name |-> section_name,
     analysis |-> Get(analysis_result, "analysis", << >>),
     success |-> TRUE]

\* The dict _analyze_section returns.
SectionAnalysis(section_name, analysis_result) ==
    [section_name |-> section_name,
     analysis |-> Get(analysis_result, "analysis", << >>),
     success |-> Get(analysis_result, "success", FALSE)]

\* ------------------------------------------ FilingAnalyzer.analyze_filing

\* One coroutine per section, also for a section with empty text.
AnalysisTasks_KeepsEmpty(secs) ==
    [i \in 1..Len(secs) |-> [section_name |-> secs[i].name, section_text |-> secs[i].text,
                             state |-> "pending", result |-> Unset, finished |-> 0]]

\* The coroutines analyze_filing hands to asyncio.gather: one per section with
\* non-empty text, in the order of sections.items().  finished records the
\* rank in which the task ended (0: not yet).
AnalysisTasks(secs) ==
    LET NonEmpty(item) == item.text # << >>
        Task(item) == [section_name |-> item.name, section_text |-> item.text,
                       state |-> "pending", result |-> Unset, finished |-> 0]
        kept == SelectSeq(secs, NonEmpty)
    IN  [i \in 1..Len(kept) |-> Task(kept[i])]

\* The number of tasks that have ended.
Ended(ts) == Cardinality({i \in 1..Len(ts) : ts[i].state \in {"done", "raised"}})

\* A join that returns with the first task that has returned.
GatherReturns_FirstCompleted(ts) == \E i \in 1..Len(ts) : ts[i].state = "done"

\* await asyncio.gather(*analysis_tasks) returns: every task has returned.
GatherReturns(ts) == \A i \in 1..Len(ts) : ts[i].state = "done"

\* await asyncio.gather(*analysis_tasks) raises: return_exceptions is not set,
\* so the first exception of a task is raised in analyze_filing.
GatherRaises(ts) == \E i \in 1..Len(ts) : ts[i].state = "raised"

\* An assessment call on an empty text when there is no summary.
AssessmentText_EmptyWithoutSummary(summary) == Get(summary, "analysis", << >>)

\* The text of the assessment call.
AssessmentText(summary) == Get(summary, "analysis", NoSummaryAvailable)

\* The part of the returned dict that the source file shows.
CompileResultsHead(metadata) ==
    [filing_id |-> Get(metadata, "accession_number", "unknown")]

\* An aggregate success flag that also counts the section analyses.
CompileResultsRest_CountsSections(summary, analyses, assessment) ==
    [summary |-> Get(summary, "analysis", << >>),
     section_analyses |-> analyses,
     overall_assessment |-> Get(assessment, "analysis", << >>),
     success |-> /\ Get(summary, "success", FALSE)
                 /\ Get(assessment, "success", FALSE)
                 /\ \A i \in 1..Len(analyses) : analyses[i].success]

\* The rest of the returned dict: the source file ends inside the return
\* statement, so these fields follow the FilingAnalysis of the specification.
CompileResultsRest(summary, analyses, assessment) ==
    [summary |-> Get(summary, "analysis", << >>),
     section_analyses |-> analyses,
     overall_assessment |-> Get(assessment, "analysis", << >>),
     success |-> Get(summary, "success", FALSE) /\ Get(assessment, "success", FALSE)]

\* ------------------------------------------------------------------ state

VARIABLES
    filing_text,          \* the document handed to the analyzer or the detector
    filing_metadata,      \* the metadata dict handed over with it
    filing_type,          \* filing_metadata.get("form_type", "unknown")
    pc,                   \* where the call is
    sections,             \* the dict _extract_sections returned
    summary_result,       \* analyze_filing: the dict of the summary call
    tasks,                \* analyze_filing: the tasks of asyncio.gather
    section_analyses,     \* analyze_filing: what asyncio.gather returned
    assessment_result,    \* analyze_filing: the dict of the assessment call
    filing_analysis,      \* detect_events: the analysis handed over, if any
    current_entities,     \* link_entities: the extraction of the current filing
    historical_entities,  \* link_entities: the extractions of earlier filings
    parser_text,          \* a parser called alone: the reply text it is handed
    parsed,               \* a parser called alone: the list it returned
    result,               \* what the call returned
    calls,                \* the HTTP exchanges made so far, with their replies
    prompt_inputs,        \* a prompt measured alone: the lengths of what it is built from
    prompt_site,          \* a prompt measured alone: the call site that built it
    prompt_chars,         \* a prompt measured alone: the length of formatted_prompt
    blobs,                \* GCSClient: the objects in the buckets
    now,                  \* GCSClient: datetime.now(), in seconds
    store_count,          \* GCSClient: the store_* calls made so far
    stored,               \* GCSClient: per bucket, the calls that returned True
    read_result,          \* GCSClient: the latest read and what it returned
    last_seen_entries,    \* SECRSSFetcher: per feed, the hashes of the entries seen
    delivered,            \* SECRSSFetcher: per feed and entry, the times the callback got it
    fetched,              \* SECRSSFetcher: per feed, the entries that were fetched so far
    lost,                 \* SECRSSFetcher: per feed, the entries whose callback raised
    monitor_pc,           \* monitor_feeds: where the loop is
    feed_tasks,           \* monitor_feeds: the process_feed tasks of the round
    connections,          \* /stream: per connection, where its generator is
    active_connections,   \* /stream: the set active_connections
    process_args,         \* process_filing_analysis: metadata and analysis_type
    process_pc,           \* process_filing_analysis: where the call is
    company_info,         \* process_filing_analysis: what the lookup gave
    process_log           \* process_filing_analysis: the calls it made, in order

vars == <<filing_text, filing_metadata, filing_type, pc, sections, summary_result,
          tasks, section_analyses, assessment_result, filing_analysis,
          current_entities, historical_entities, parser_text, parsed, result, calls,
          prompt_inputs, prompt_site, prompt_chars,
          blobs, now, store_count, stored, read_result,
          last_seen_entries, delivered, fetched, lost, monitor_pc, feed_tasks,
          connections, active_connections,
          process_args, process_pc, company_info, process_log>>

\* The state of the analysis functions.
analysisVars == <<filing_text, filing_metadata, filing_type, pc, sections, summary_result,
                  tasks, section_analyses, assessment_result, filing_analysis,
                  current_entities, historical_entities, parser_text, parsed, result,
                  calls>>

\* The arguments of analyze_filing and detect_events.
filingVars == <<filing_text, filing_metadata, filing_type>>

\* The locals of analyze_filing.
analyzerVars == <<sections, summary_result, tasks, section_analyses, assessment_result>>

\* The arguments of the detector and of the linker.
detectorVars == <<filing_analysis>>

linkerVars == <<current_entities, historical_entities>>

NoFiling ==
    /\ filing_text = << >>
    /\ filing_metadata = Unset
    /\ filing_type = "unknown"

AnalyzerIdle ==
    /\ sections = << >>
    /\ summary_result = Unset
    /\ tasks = << >>
    /\ section_analyses = << >>
    /\ assessment_result = Unset

DetectorIdle == filing_analysis = Unset

LinkerIdle == current_entities = Unset /\ historical_entities = << >>

\* The argument and the return value of a parser that is called alone.
parserVars == <<parser_text, parsed>>

ParserIdle == parser_text = << >> /\ parsed = << >>

NothingReturned == result = Unset /\ calls = << >>

\* The length of a prompt that is measured alone.
promptVars == <<prompt_inputs, prompt_site, prompt_chars>>

NoPrompt == prompt_inputs = Unset /\ prompt_site = "none" /\ prompt_chars = 0

\* The buckets and the calls made on the storage client.
storageVars == <<blobs, now, store_count, stored, read_result>>

Buckets == {"analyses", "events", "entities", "links"}

EmptyStorage ==
    /\ blobs = {}
    /\ now = 0
    /\ store_count = 0
    /\ stored = [bucket \in Buckets |-> [count |-> 0, data |-> Unset]]
    /\ read_result = Unset

\* The fetcher and the monitoring loop.
fetcherVars == <<last_seen_entries, delivered, fetched, lost>>

monitorVars == <<monitor_pc, feed_tasks>>

\* Three of the feeds of RSS_FEEDS; the URL of company_filings holds {cik}.
RSS_FEEDS ==
    [latest_filings |-> <<"action=getcurrent", "type=">>,
     company_filings |-> <<"action=getcompany", "CIK=", "{cik}">>,
     form_4 |-> <<"action=getcurrent", "type=4">>]

FeedNames == DOMAIN RSS_FEEDS

\* An entry of a feed: its id and, when the feed gives one, its updated
\* value, a timestamp.
EntryIds == {<<"a">>, <<"a", "_">>}

UpdatedValues == {<<"1">>, <<"2">>}

Entries == [id : EntryIds] \cup [id : EntryIds, updated : UpdatedValues]

\* A new SECRSSFetcher: last_seen_entries = {}, no entry was passed on.
NewFetcher ==
    /\ last_seen_entries = [feed_name \in FeedNames |-> {}]
    /\ delivered = [feed_name \in FeedNames |-> [entry \in Entries |-> 0]]
    /\ fetched = [feed_name \in FeedNames |-> {}]
    /\ lost = [feed_name \in FeedNames |-> {}]

MonitorIdle ==
    /\ monitor_pc = "start"
    /\ feed_tasks = [feed_name \in FeedNames |-> "none"]

\* The connections of GET /stream.
streamVars == <<connections, active_connections>>

MaxConnections == 3

Connections == 1..MaxConnections

NoConnections ==
    /\ connections = [c \in Connections |-> [state |-> "none", heartbeats |-> 0]]
    /\ active_connections = {}

\* A call of process_filing_analysis.
processVars == <<process_args, process_pc, company_info, process_log>>

NoProcess ==
    /\ process_args = Unset
    /\ process_pc = "none"
    /\ company_info = Unset
    /\ process_log = << >>

\* The background work besides the storage.
backgroundVars == <<fetcherVars, monitorVars, streamVars, processVars>>

BackgroundIdle == NewFetcher /\ MonitorIdle /\ NoConnections /\ NoProcess

\* The state outside the analysis functions.
servicesVars == <<promptVars, storageVars, backgroundVars>>

ServicesIdle == NoPrompt /\ EmptyStorage /\ BackgroundIdle

AnalysisIdle ==
    /\ pc = "start"
    /\ NoFiling /\ AnalyzerIdle /\ DetectorIdle /\ LinkerIdle /\ ParserIdle
    /\ NothingReturned

\* An exchange of the log: phase is "summary", "section", "assessment",
\* "events" or "links", name the section of a section call.
Call(phase, name, task_type, text) ==
    [phase |-> phase, name |-> name, task_type |-> task_type, text |-> text,
     reply |-> InFlight]

\* The exchange at index i of the log ends with reply.
Answered(log, i, reply) == [log EXCEPT ![i].reply = reply]

\* The index of the exchange of that name that is still in flight.
Pending(log, name) ==
    CHOOSE i \in 1..Len(log) : log[i].name = name /\ log[i].reply = InFlight

\* ------------------------------------- specification: _extract_sections alone

FilingTypes == {"4", "10-Q", "unknown"}

\* Filings in which a header occurs twice, with different text after it.
RepeatedHeaderFilings ==
    { <<"R", "I", "\n", "R", "T", "\n">>,
      <<"T", "I", "\n", "r", "\n", "T", "T", "\n">> }

SectionsInit ==
    /\ filing_text \in TextsUpTo(DocChars, MaxDocLen) \cup RepeatedHeaderFilings
    /\ filing_type \in FilingTypes
    /\ filing_metadata = [form_type |-> filing_type]
    /\ pc = "call"
    /\ AnalyzerIdle /\ DetectorIdle /\ LinkerIdle /\ ParserIdle /\ NothingReturned /\ ServicesIdle

\* sections = self._extract_sections(filing_text, filing_type)
ExtractOnly ==
    /\ pc = "call"
    /\ sections' = ExtractSections(filing_text, filing_type)
    /\ pc' = "extracted"
    /\ UNCHANGED <<filingVars, summary_result, tasks, section_analyses,
                   assessment_result, detectorVars, linkerVars, servicesVars, parserVars, result, calls>>

SectionsNext == ExtractOnly

SpecSections == SectionsInit /\ [][SectionsNext]_vars

\* ------------------------------------------ specification: analyze_filing

\* The filings analyze_filing is run on: no header, one section, an empty
\* section, two sections, two sections against the order of the catalog, a
\* section and an empty section,
\* three sections (two of them overlapping).
SampleFilings ==
    { << >>,
      <<"R", "I", "\n">>,
      <<"R", " ", "\n">>,
      <<"T", "\n", "I", "\n", "R", "I", "\n">>,
      <<"R", "I", "\n", "T", "\n", "I", "\n">>,
      <<"T", "\n", "I", "\n", "R", " ", "\n">>,
      <<"T", "I", "I", "\n", "R", "I", "\n">> }

\* The metadata of a filing: with a form type or without one, and without
\* accession number.
SampleMetadata ==
    { [accession_number |-> "0000320193-23-000022", form_type |-> "4"],
      [form_type |-> "4"],
      [accession_number |-> "0000320193-23-000022", form_type |-> "10-Q"],
      [accession_number |-> "0000320193-23-000022"] }

\* The content of a model reply: JSON null, no text, a text.
ReplyContents == {None, << >>, <<"s">>}

Init ==
    /\ filing_text \in SampleFilings
    /\ filing_metadata \in SampleMetadata
    /\ filing_type = Get(filing_metadata, "form_type", "unknown")
    /\ pc = "start"
    /\ AnalyzerIdle /\ DetectorIdle /\ LinkerIdle /\ ParserIdle /\ NothingReturned /\ ServicesIdle

\* summary_result = await self.model_client.analyze_text(filing_text[:50000], ...):
\* the prompt is formatted and the request is sent.
SummaryCall ==
    /\ pc = "start"
    /\ pc' = "summary"
    /\ calls' = Append(calls, Call("summary", "summary", "summarization", filing_text))
    /\ UNCHANGED <<filingVars, analyzerVars, detectorVars, linkerVars, servicesVars, parserVars, result>>

\* The summary call ends.
SummaryReturn(reply) ==
    /\ pc = "summary"
    /\ calls' = Answered(calls, Pending(calls, "summary"), reply)
    /\ IF reply.kind = "escape"
       THEN pc' = "raised" /\ UNCHANGED summary_result
       ELSE /\ pc' = "extract"
            /\ summary_result' = AnalyzeTextResult(reply, "summarization")
    /\ UNCHANGED <<filingVars, sections, tasks, section_analyses, assessment_result,
                   detectorVars, linkerVars, servicesVars, parserVars, result>>

\* sections = self._extract_sections(...); the tasks are built; with no task
\* asyncio.gather is not called.
Extract ==
    /\ pc = "extract"
    /\ sections' = ExtractSections(filing_text, filing_type)
    /\ tasks' = AnalysisTasks(sections')
    /\ pc' = IF tasks' = << >> THEN "assess" ELSE "gather"
    /\ UNCHANGED <<filingVars, summary_result, section_analyses, assessment_result,
                   detectorVars, linkerVars, servicesVars, parserVars, result, calls>>

\* A task of asyncio.gather starts (the event loop starts them in order): the
\* section is truncated, the prompt formatted and the request sent.  A task
\* is not cancelled when analyze_filing has raised.
SectionStart(i) ==
    /\ pc \in {"gather", "raised"}
    /\ i \in 1..Len(tasks)
    /\ tasks[i].state = "pending"
    /\ \A j \in 1..(i - 1) : tasks[j].state # "pending"
    /\ tasks' = [tasks EXCEPT ![i].state = "inflight"]
    /\ calls' = Append(calls, Call("section", tasks[i].section_name, "analysis",
                                   tasks[i].section_text))
    /\ UNCHANGED <<filingVars, pc, sections, summary_result, section_analyses,
                   assessment_result, detectorVars, linkerVars, servicesVars, parserVars, result>>

\* The model call of a task ends, and with it _analyze_section.
SectionReturn(i, reply) ==
    /\ pc \in {"gather", "raised"}
    /\ i \in 1..Len(tasks)
    /\ tasks[i].state = "inflight"
    /\ calls' = Answered(calls, Pending(calls, tasks[i].section_name), reply)
    /\ tasks' = IF reply.kind = "escape"
                THEN [tasks EXCEPT ![i].state = "raised", ![i].finished = Ended(tasks) + 1]
                ELSE [tasks EXCEPT ![i].state = "done", ![i].finished = Ended(tasks) + 1,
                                   ![i].result = SectionAnalysis(tasks[i].section_name,
                                                     AnalyzeTextResult(reply, "analysis"))]
    /\ UNCHANGED <<filingVars, pc, sections, summary_result, section_analyses,
                   assessment_result, detectorVars, linkerVars, servicesVars, parserVars, result>>

\* section_analyses = await asyncio.gather(*analysis_tasks) returns the results
\* in the order of the tasks.
GatherReturn ==
    /\ pc = "gather"
    /\ GatherReturns(tasks)
    /\ section_analyses' = [i \in 1..Len(tasks) |-> tasks[i].result]
    /\ pc' = "assess"
    /\ UNCHANGED <<filingVars, sections, summary_result, tasks, assessment_result,
                   detectorVars, linkerVars, servicesVars, parserVars, result, calls>>

\* await asyncio.gather(*analysis_tasks) raises the exception of a task, and
\* analyze_filing does not catch it.
GatherRaise ==
    /\ pc = "gather"
    /\ GatherRaises(tasks)
    /\ pc' = "raised"
    /\ UNCHANGED <<filingVars, analyzerVars, detectorVars, linkerVars, servicesVars, parserVars, result, calls>>

\* assessment_result = await self.model_client.analyze_text(summary text, ...):
\* the prompt is formatted, which raises on None, and the request is sent.
AssessmentCall ==
    /\ pc = "assess"
    /\ IF FormatRaises(FALSE, AssessmentText(summary_result))
       THEN pc' = "raised" /\ UNCHANGED calls
       ELSE /\ pc' = "assessment"
            /\ calls' = Append(calls, Call("assessment", "assessment", "analysis",
                                           AssessmentText(summary_result)))
    /\ UNCHANGED <<filingVars, analyzerVars, detectorVars, linkerVars, servicesVars, parserVars, result>>

\* The assessment call ends and analyze_filing returns the compiled dict.
AssessmentReturn(reply) ==
    /\ pc = "assessment"
    /\ calls' = Answered(calls, Pending(calls, "assessment"), reply)
    /\ IF reply.kind = "escape"
       THEN pc' = "raised" /\ UNCHANGED <<assessment_result, result>>
       ELSE /\ pc' = "returned"
            /\ assessment_result' = AnalyzeTextResult(reply, "analysis")
            /\ result' = CompileResultsHead(filing_metadata) @@
                         CompileResultsRest(summary_result, section_analyses,
                                            assessment_result')
    /\ UNCHANGED <<filingVars, sections, summary_result, tasks, section_analyses,
                   detectorVars, linkerVars, servicesVars, parserVars>>

Next ==
    \/ SummaryCall
    \/ \E reply \in Replies(ReplyContents) : SummaryReturn(reply)
    \/ Extract
    \/ \E i \in 1..Len(tasks) : SectionStart(i)
    \/ \E i \in 1..Len(tasks), reply \in Replies(ReplyContents) : SectionReturn(i, reply)
    \/ GatherReturn
    \/ GatherRaise
    \/ AssessmentCall
    \/ \E reply \in Replies(ReplyContents) : AssessmentReturn(reply)

Spec == Init /\ [][Next]_vars

\* ---------------------------------------------- specification: detect_events

\* The pieces the replies of the event detection are made of.
EventPieces ==
    {"\n", "-", "risk level: critical.", "Risk Level: HIGH.", "Market impact: high.",
     "No significant events detected.", "The CEO resigned."}

\* The filings detect_events is run on.
EventFilings ==
    { <<"The CEO resigned.">>,
      <<"The CEO resigned.", "\n", "No significant events detected.">> }

\* The analyses handed to detect_events: none, one of plain text, one whose
\* summary holds a brace.
SampleAnalyses ==
    { Unset,
      [summary |-> <<"The CEO resigned.">>, overall_assessment |-> <<"s">>],
      [summary |-> <<"{", "s", "}">>, overall_assessment |-> <<"s">>] }

EventsInit ==
    /\ filing_text \in EventFilings
    /\ filing_metadata = [accession_number |-> "0000320193-23-000022", form_type |-> "8-K"]
    /\ filing_type = Get(filing_metadata, "form_type", "unknown")
    /\ filing_analysis \in SampleAnalyses
    /\ pc = "start"
    /\ AnalyzerIdle /\ LinkerIdle /\ ParserIdle /\ NothingReturned /\ ServicesIdle

\* result = await self.model_client.analyze_text(filing_text[:25000], ...): the
\* prompt is formatted, which raises on a brace of the pasted analysis, and
\* the request is sent.
DetectCall ==
    /\ pc = "start"
    /\ IF FormatRaises(DetectPromptBraces(filing_analysis), filing_text)
       THEN pc' = "raised" /\ UNCHANGED calls
       ELSE /\ pc' = "detecting"
            /\ calls' = Append(calls, Call("events", "events", "analysis", filing_text))
    /\ UNCHANGED <<filingVars, analyzerVars, detectorVars, linkerVars, servicesVars, parserVars, result>>

\* The call ends; the reply is parsed (re.search raises on None) and the dict
\* is returned.
DetectReturn(reply) ==
    /\ pc = "detecting"
    /\ calls' = Answered(calls, Pending(calls, "events"), reply)
    /\ LET detection_text == Get(AnalyzeTextResult(reply, "analysis"), "analysis", << >>)
       IN  IF reply.kind = "escape" \/ detection_text = None
           THEN pc' = "raised" /\ UNCHANGED result
           ELSE /\ pc' = "returned"
                /\ result' = EventResult(filing_metadata, ParseEvents(detection_text))
    /\ UNCHANGED <<filingVars, analyzerVars, detectorVars, linkerVars, servicesVars, parserVars>>

EventsNext ==
    \/ DetectCall
    \/ \E reply \in Replies(TextsUpTo(EventPieces, MaxReplyLen) \cup {None}) :
           DetectReturn(reply)

SpecEvents == EventsInit /\ [][EventsNext]_vars

\* ---------------------------------------------- specification: link_entities

\* The pieces the replies of the link call are made of.
LinkPieces ==
    {"\n", "-", "Company: Acme,", "Relationship: supplier,", "This is a major change."}

\* Extractions as extract_entities returns them, and one without entities.
SampleExtractions ==
    { [filing_id |-> "0000320193-23-000022",
       raw_entities |-> << [name |-> "Katherine Adams", type |-> "person"],
                           [name |-> "Tim Cook", type |-> "person"] >>],
      [filing_id |-> "0000320193-23-000010",
       raw_entities |-> << [name |-> "Tim Cook", type |-> "person"] >>],
      [filing_id |-> "0000320193-23-000001", raw_entities |-> << >>] }

\* The filing ids of a long history.
HistoricalFilingIds ==
    << "0000320193-22-000001", "0000320193-22-000002", "0000320193-22-000003",
       "0000320193-22-000004", "0000320193-22-000005", "0000320193-22-000006",
       "0000320193-22-000007", "0000320193-22-000008", "0000320193-22-000009",
       "0000320193-22-000010", "0000320193-22-000011", "0000320193-22-000012" >>

\* Histories of 10, 11 and 12 extractions, oldest first and newest first.
LongHistories ==
    LET Extraction(k) == [filing_id |-> HistoricalFilingIds[k],
                          raw_entities |-> << [name |-> "Tim Cook", type |-> "person"] >>]
    IN  {[i \in 1..n |-> Extraction(i)] : n \in 10..12}
            \cup {[i \in 1..n |-> Extraction(n + 1 - i)] : n \in 10..12}

LinkInit ==
    /\ current_entities \in SampleExtractions
    /\ historical_entities \in TextsUpTo(SampleExtractions, MaxHistory) \cup LongHistories
    /\ pc = "start"
    /\ NoFiling /\ AnalyzerIdle /\ DetectorIdle /\ ParserIdle /\ NothingReturned /\ ServicesIdle

\* link_entities up to its first await: without history it returns at once;
\* with history the prompt is built and sent as the text of the default
\* template.
LinkCall ==
    /\ pc = "start"
    /\ IF ShortCircuits(historical_entities)
       THEN /\ pc' = "returned"
            /\ result' = EmptyLinkResult(current_entities)
            /\ UNCHANGED calls
       ELSE /\ pc' = "linking"
            /\ calls' = Append(calls, Call("links", "links", "analysis",
                                  [current |-> current_entities,
                                   history |-> HistoricalContext(historical_entities)]))
            /\ UNCHANGED result
    /\ UNCHANGED <<filingVars, analyzerVars, detectorVars, linkerVars, servicesVars, parserVars>>

\* The call ends; the reply is parsed (re.split raises on None) and the dict is
\* returned.
LinkReturn(reply) ==
    /\ pc = "linking"
    /\ calls' = Answered(calls, Pending(calls, "links"), reply)
    /\ LET link_text == Get(AnalyzeTextResult(reply, "analysis"), "analysis", << >>)
       IN  IF reply.kind = "escape" \/ link_text = None
           THEN pc' = "raised" /\ UNCHANGED result
           ELSE /\ pc' = "returned"
                /\ result' = LinkResult(current_entities, link_text)
    /\ UNCHANGED <<filingVars, analyzerVars, detectorVars, linkerVars, servicesVars, parserVars>>

LinkNext ==
    \/ LinkCall
    \/ \E reply \in Replies(TextsUpTo(LinkPieces, MaxLinkReplyLen) \cup {None}) :
           LinkReturn(reply)

SpecLink == LinkInit /\ [][LinkNext]_vars


\* ------------------------------------------- specification: the parsers alone

\* The pieces the texts handed to the parsers are made of.
ParserPieces ==
    {"\n", " ", "-", "Company: Acme,", "Type: company,", "Role: filer,",
     "Relationship: supplier,", "risk level: critical.", "Financial results.",
     "Management change and restructuring.", "The CEO resigned."}

ParsersInit ==
    /\ parser_text \in TextsUpTo(ParserPieces, MaxParseLen) \cup {None}
    /\ parsed = << >>
    /\ pc = "start"
    /\ NoFiling /\ AnalyzerIdle /\ DetectorIdle /\ LinkerIdle /\ NothingReturned /\ ServicesIdle

\* A parser is called on the text and returns its list, or raises.
Parse(parser, records) ==
    /\ pc = "start"
    /\ IF ParserRaises(parser_text)
       THEN pc' = "raised" /\ UNCHANGED parsed
       ELSE pc' = parser /\ parsed' = records
    /\ UNCHANGED <<filingVars, analyzerVars, detectorVars, linkerVars, servicesVars, parser_text,
                   result, calls>>

\* self._parse_entities(extraction_text)
ParseEntitiesCall == Parse("_parse_entities", ParseEntities(parser_text))

\* self._parse_events(detection_text)
ParseEventsCall == Parse("_parse_events", ParseEvents(parser_text))

\* self._parse_links(link_text)
ParseLinksCall == Parse("_parse_links", ParseLinks(parser_text))

ParsersNext == ParseEntitiesCall \/ ParseEventsCall \/ ParseLinksCall

SpecParsers == ParsersInit /\ [][ParsersNext]_vars

\* ----------------------------------------------- claims: _extract_sections

\* t occurs in d.
IsSubstring(t, d) == \E p \in 1..(Len(d) + 1) : SubSeq(d, p, p + Len(t) - 1) = t

\* The span of filing_text that the returned section of that name holds.
ReturnedSpan(name) ==
    LET target_sections == SECTIONS_OF_INTEREST(filing_type)
        i == CHOOSE k \in 1..Len(target_sections) : target_sections[k].name = name
    IN  SectionSpan(target_sections[i].chars, target_sections, filing_text)

SpansOverlap(a, b) ==
    a.from <= a.to /\ b.from <= b.to /\ a.from <= b.to /\ b.from <= a.to

\* C9: with a non-empty catalog, every returned section is a substring of the
\* document and no two returned sections overlap in the document.
C9_SubstringsNoOverlap ==
    (pc = "extracted" /\ SECTIONS_OF_INTEREST(filing_type) # << >>) =>
        /\ \A i \in 1..Len(sections) : IsSubstring(sections[i].text, filing_text)
        /\ \A i, j \in 1..Len(sections) :
              i # j => ~SpansOverlap(ReturnedSpan(sections[i].name),
                                     ReturnedSpan(sections[j].name))

\* C10: with an empty catalog (unknown types too) _extract_sections returns
\* exactly one section, whose text is the whole input.
C10_WholeFilingFallback ==
    (pc = "extracted" /\ SECTIONS_OF_INTEREST(filing_type) = << >>) =>
        Len(sections) = 1 /\ sections[1].text = filing_text

\* An unknown type, on a text that holds a header and ends in white space.
C10_Witness ==
    /\ pc = "extracted"
    /\ filing_type = "unknown"
    /\ Len(sections) = 1
    /\ Len(filing_text) >= 3
    /\ filing_text[1] = "R"
    /\ filing_text[Len(filing_text)] = "\n"

\* ------------------------------------------------- claims: analyze_filing

\* The section calls of the log that have ended without a result the caller
\* can use: analyze_text returned success=false.
FailedSectionCalls ==
    {k \in 1..Len(calls) : /\ calls[k].phase = "section"
                           /\ calls[k].reply.kind \in {"http", "raises"}
                           /\ ~Delivered(calls[k].reply)}

\* The reply of the one call of a phase.
ReplyOf(phase) == calls[CHOOSE k \in 1..Len(calls) : calls[k].phase = phase].reply

\* C1: when the call of one section raises, no exception escapes the join,
\* analyze_filing still returns, and the section is reported with success=false.
C1_FailureIsolation ==
    \A i \in 1..Len(tasks) :
        tasks[i].state = "raised" =>
            /\ pc # "raised"
            /\ pc = "returned" =>
                  \E n \in 1..Len(section_analyses) :
                      /\ section_analyses[n].section_name = tasks[i].section_name
                      /\ ~section_analyses[n].success

\* C2: section_analyses of a returned analysis has one entry per extracted
\* section with non-empty text, in that order; every failed section call is kept
\* as an entry with success=false, and there are as many such entries as failed
\* section calls.
C2_OneEntryPerSection ==
    pc = "returned" =>
        LET NonEmpty(item) == item.text # << >>
            kept == SelectSeq(sections, NonEmpty)
            failures == {n \in 1..Len(section_analyses) : ~section_analyses[n].success}
        IN  /\ Len(section_analyses) = Len(kept)
            /\ \A n \in 1..Len(kept) : section_analyses[n].section_name = kept[n].name
            /\ \A k \in FailedSectionCalls :
                  \E n \in failures : section_analyses[n].section_name = calls[k].name
            /\ Cardinality(failures) = Cardinality(FailedSectionCalls)

\* A returned analysis of three sections, the second of which failed.
C2_Witness ==
    /\ pc = "returned"
    /\ Len(section_analyses) = 3
    /\ section_analyses[1].success
    /\ ~section_analyses[2].success
    /\ section_analyses[3].success

\* C3: the summary call has ended before a section call starts, and every
\* section call has ended before the assessment call starts.
C3_ThreePhases ==
    \A i, j \in 1..Len(calls) :
        /\ (calls[i].phase = "summary" /\ calls[j].phase = "section") =>
               i < j /\ calls[i].reply # InFlight
        /\ (calls[i].phase = "section" /\ calls[j].phase = "assessment") =>
               i < j /\ calls[i].reply # InFlight
        /\ (calls[i].phase = "summary" /\ calls[j].phase = "assessment") =>
               i < j /\ calls[i].reply # InFlight

\* The assessment call in flight after two section calls.
C3_Witness ==
    /\ pc = "assessment"
    /\ Len(calls) = 4
    /\ calls[4].reply = InFlight

\* C4: the success flag of the returned analysis is (summary call succeeded and
\* assessment call succeeded), whatever the section calls came to.
C4_AggregateSuccess ==
    pc = "returned" =>
        result.success = (Delivered(ReplyOf("summary")) /\ Delivered(ReplyOf("assessment")))

\* A successful analysis with a failed section.
C4_Witness ==
    /\ pc = "returned"
    /\ result.success
    /\ FailedSectionCalls # {}

\* C5: whatever a model call comes to (a status other than 200, an exception of
\* the transport, a reply with any content), analyze_filing does not raise.
C5_NeverRaises ==
    (\A k \in 1..Len(calls) : calls[k].reply.kind # "escape") => pc # "raised"

\* ------------------------------------------------- claims: link_entities

\* C6: without history link_entities returns no links and the entities of the
\* current extraction, and has made no model call.
C6_EmptyHistoryNoCall ==
    historical_entities = << >> =>
        /\ calls = << >>
        /\ pc \in {"start", "returned"}
        /\ pc = "returned" =>
              /\ result.links = << >>
              /\ result.new_entities = Get(current_entities, "raw_entities", << >>)

\* Returned without history for an extraction of two entities.
C6_Witness ==
    /\ pc = "returned"
    /\ historical_entities = << >>
    /\ current_entities # Unset
    /\ Len(result.new_entities) = 2

\* ------------------------------------------------- claims: detect_events

\* C7: has_critical_events is true iff an event has risk_level "Critical",
\* has_high_impact_events iff an event has market_impact "High", and
\* event_count is the number of events.
C7_EventFlags ==
    pc = "returned" =>
        /\ result.has_critical_events =
               (\E i \in 1..Len(result.events) : result.events[i].risk_level = "Critical")
        /\ result.has_high_impact_events =
               (\E i \in 1..Len(result.events) : result.events[i].market_impact = "High")
        /\ result.event_count = Len(result.events)

\* Two events: the first of high market impact and not critical, the second
\* critical and not of high market impact.
C7_Witness ==
    /\ pc = "returned"
    /\ result.event_count = 2
    /\ result.events[1].market_impact = "High"
    /\ result.events[1].risk_level # "Critical"
    /\ result.events[2].risk_level = "Critical"
    /\ result.events[2].market_impact # "High"
    /\ result.has_critical_events
    /\ result.has_high_impact_events

\* The text holds the phrase "no significant events detected".
HoldsNoEventsPhrase(text) ==
    \E i \in 1..Len(text) : text[i] = "No significant events detected."

\* C8 as stated: detect_events called on a text that holds the phrase returns no
\* events.
C8_NoEventsInFiling ==
    (pc = "returned" /\ HoldsNoEventsPhrase(filing_text)) =>
        result.events = << >> /\ result.event_count = 0

\* C8 as amended: detect_events returns no events when the reply of the model
\* holds the phrase, whatever surrounds it in the reply.
C8_NoEventsInReply ==
    (pc = "returned" /\ Delivered(calls[1].reply) /\ HoldsNoEventsPhrase(calls[1].reply.content)) =>
        result.events = << >> /\ result.event_count = 0

\* A reply that holds the phrase and, beside it, what would make an event.
C8_Witness ==
    /\ pc = "returned"
    /\ calls[1].reply.content = <<"No significant events detected.", "\n", "-",
                                  "risk level: critical.">>
    /\ result.events = << >>

\* ------------------------------------------- claims: order of the sections

\* The index of a section name in the catalog of the filing type.
CatalogIndex(name) ==
    LET catalog == SECTIONS_OF_INTEREST(filing_type)
    IN  CHOOSE i \in 1..Len(catalog) : catalog[i].name = name

\* The names are in the order of the catalog.
InCatalogOrder(names) ==
    \A n, m \in 1..Len(names) :
        n < m => CatalogIndex(names[n]) < CatalogIndex(names[m])

\* The keys of the sections dict, in iteration order.
SectionNames(items) == [n \in 1..Len(items) |-> items[n].name]

\* The section names of a list of section analyses.
AnalysisNames(analyses) == [n \in 1..Len(analyses) |-> analyses[n].section_name]

\* C11: the extracted sections are in catalog order, not in the order of the
\* document, and so are the entries of section_analyses, in whatever order
\* the section calls ended.
C11_CatalogOrder ==
    SECTIONS_OF_INTEREST(filing_type) # << >> =>
        /\ InCatalogOrder(SectionNames(sections))
        /\ InCatalogOrder(AnalysisNames(section_analyses))
        /\ pc = "returned" => InCatalogOrder(AnalysisNames(result.section_analyses))

\* A returned analysis of a filing that holds Remarks before Table I, whose
\* Remarks call ended before its Table I call.
C11_Witness ==
    /\ pc = "returned"
    /\ filing_text = <<"R", "I", "\n", "T", "\n", "I", "\n">>
    /\ Len(result.section_analyses) = 2
    /\ result.section_analyses[1].section_name = "Table I"
    /\ result.section_analyses[2].section_name = "Remarks"
    /\ tasks[2].finished < tasks[1].finished

\* ------------------------------------------- claims: keys of the sections

\* The positions of the document at which the pattern of a header matches.
PatternMatches(header) ==
    {p \in 1..Len(filing_text) :
        SectionMatchAt(header, SECTIONS_OF_INTEREST(filing_type), filing_text, p).ok}

\* The items of the returned dict under a name.
ItemsNamed(name) == {n \in 1..Len(sections) : sections[n].name = name}

\* C12: with a non-empty catalog a header is a key of the result iff its
\* pattern matches the document; a header without match is absent, and a
\* header with several matches holds the stripped text of the leftmost one.
C12_KeyIffMatch ==
    (pc = "extracted" /\ SECTIONS_OF_INTEREST(filing_type) # << >>) =>
        LET catalog == SECTIONS_OF_INTEREST(filing_type)
        IN  \A i \in 1..Len(catalog) :
                LET at == PatternMatches(catalog[i].chars)
                    first == SectionMatchAt(catalog[i].chars, catalog, filing_text, Min(at))
                IN  /\ (ItemsNamed(catalog[i].name) # {}) = (at # {})
                    /\ Cardinality(ItemsNamed(catalog[i].name)) <= 1
                    /\ at # {} =>
                          \A n \in ItemsNamed(catalog[i].name) :
                              sections[n].text = Strip(SubSeq(filing_text, first.from, first.to))

\* Remarks matches twice, with different text, and Table II not at all: the
\* result holds the first Remarks text and no Table II.
C12_Witness ==
    /\ pc = "extracted"
    /\ filing_type = "4"
    /\ filing_text = <<"R", "I", "\n", "R", "T", "\n">>
    /\ Cardinality(PatternMatches(<<"R">>)) = 2
    /\ PatternMatches(<<"T", "I">>) = {}
    /\ ItemsNamed("Table II") = {}
    /\ \E n \in ItemsNamed("Remarks") : sections[n].text = <<"I">>

\* ------------------------------------------------- claims: the parsers

\* The pieces that stand for a list marker do not occur in the text.
NoBlockMarkers(text) == \A i \in 1..Len(text) : ~IsMarker(text[i])

\* C13: on a text, _parse_entities, _parse_events and _parse_links do not
\* raise; on an empty text or white space they return no record, and on a
\* text without block marker at most one.
C13_ParsersNeverRaise ==
    parser_text # None =>
        /\ pc # "raised"
        /\ (pc # "start" /\ Strip(parser_text) = << >>) => parsed = << >>
        /\ (pc # "start" /\ NoBlockMarkers(parser_text)) => Len(parsed) <= 1

\* _parse_entities returned one record for a text of several lines without
\* block marker.
C13_Witness ==
    /\ pc = "_parse_entities"
    /\ parser_text = <<"The CEO resigned.", "\n", "Role: filer,">>
    /\ Len(parsed) = 1

\* ------------------------------------------------- claims: metadata

\* C14: with metadata that lacks the accession number analyze_filing raises
\* instead of returning a result.
C14_MalformedMetadataRaises ==
    "accession_number" \notin DOMAIN filing_metadata => pc # "returned"

\* ------------------------------------------------- claims: event records

\* The categories that the description of a record names as whole words.
NamedCategories(description) ==
    UNION {CategoriesIn(description[i]) : i \in 1..Len(description)}

\* The position of a category in EVENT_CATEGORIES.
DeclarationIndex(category) ==
    CHOOSE c \in 1..Len(EVENT_CATEGORIES) : EVENT_CATEGORIES[c] = category

\* C15: the category of a parsed event is the first of EVENT_CATEGORIES, in
\* declaration order, that its block names, and "Other Material Event" when
\* the block names none.
C15_FirstDeclaredCategory ==
    pc = "_parse_events" =>
        \A n \in 1..Len(parsed) :
            LET named == NamedCategories(parsed[n].description)
            IN  IF named = {}
                THEN parsed[n].category = "Other Material Event"
                ELSE /\ parsed[n].category \in named
                     /\ \A c \in named :
                           DeclarationIndex(parsed[n].category) <= DeclarationIndex(c)

\* An event whose block names Financial Results before Management Change:
\* it is a Management Change.
C15_Witness ==
    /\ pc = "_parse_events"
    /\ parser_text = <<"Financial results.", " ", "Management change and restructuring.">>
    /\ Len(parsed) = 1
    /\ parsed[1].category = "Management Change"

\* C16: every record of a parser holds every field of its type, with the
\* default where the block has no label for it.
C16_RecordsComplete ==
    /\ pc = "_parse_entities" =>
          \A n \in 1..Len(parsed) :
              LET block == parsed[n].context
              IN  /\ DOMAIN parsed[n] = {"name", "type", "role", "context"}
                  /\ FirstCapture(block, "entity_type") = NoMatch => parsed[n].type = "unknown"
                  /\ FirstCapture(block, "entity_role") = NoMatch => parsed[n].role = "mentioned"
    /\ pc = "_parse_events" =>
          \A n \in 1..Len(parsed) :
              LET block == parsed[n].description
              IN  /\ DOMAIN parsed[n] = {"description", "category", "entities_involved",
                                         "financial_impact", "market_impact", "risk_level"}
                  /\ FirstCapture(block, "financial_impact") = NoMatch =>
                         parsed[n].financial_impact = "Unknown"
                  /\ FirstCapture(block, "market_impact") = NoMatch =>
                         parsed[n].market_impact = "Unknown"
                  /\ FirstCapture(block, "risk_level") = NoMatch =>
                         parsed[n].risk_level = "Medium"
    /\ pc = "_parse_links" =>
          \A n \in 1..Len(parsed) :
              LET block == parsed[n].description
              IN  /\ {"description", "entities_involved", "relationship_type",
                      "significance"} \subseteq DOMAIN parsed[n]
                  /\ FirstCapture(block, "link_entity") = NoMatch =>
                         parsed[n].entities_involved = << >>
                  /\ FirstCapture(block, "relationship_type") = NoMatch =>
                         parsed[n].relationship_type = "related"
                  /\ (\A i \in 1..Len(block) : ~HasHighWord(block[i]) /\ ~HasLowWord(block[i])) =>
                         parsed[n].significance = "medium"

\* An entity record of a block that labels neither type nor role.
C16_Witness ==
    /\ pc = "_parse_entities"
    /\ parser_text = <<"The CEO resigned.">>
    /\ Len(parsed) = 1
    /\ parsed[1].type = "unknown"
    /\ parsed[1].role = "mentioned"

\* ------------------------------------------------- claims: link results

\* C17: every dict link_entities returns, with or without a model call, holds
\* the filing id, the links, the raw link text, the entities of the current
\* filing and the timestamp.
C17_LinkResultFields ==
    pc = "returned" =>
        {"filing_id", "links", "link_text", "new_entities", "link_timestamp"}
            \subseteq DOMAIN result

CallsOf(phase) == {k \in 1..Len(calls) : calls[k].phase = phase}

\* The extracted sections with non-empty text.
NonEmptySections == {n \in 1..Len(sections) : sections[n].text # << >>}

\* C19: a run of analyze_filing makes one summary call of task type
\* "summarization", one call of task type "analysis" for each extracted section
\* with non-empty text and none for an empty section, and one assessment call:
\* 2 + n calls when it returns, and never more of any kind before.
C19_TwoPlusNCalls ==
    /\ Cardinality(CallsOf("summary")) <= 1
    /\ Cardinality(CallsOf("assessment")) <= 1
    /\ \A k \in CallsOf("summary") : calls[k].task_type = "summarization"
    /\ \A k \in CallsOf("section") \cup CallsOf("assessment") : calls[k].task_type = "analysis"
    /\ \A k \in CallsOf("section") :
          /\ \E n \in NonEmptySections : sections[n].name = calls[k].name
          /\ \A j \in CallsOf("section") : calls[j].name = calls[k].name => j = k
    /\ pc = "returned" =>
          /\ Cardinality(CallsOf("summary")) = 1
          /\ Cardinality(CallsOf("section")) = Cardinality(NonEmptySections)
          /\ Cardinality(CallsOf("assessment")) = 1
          /\ Len(calls) = 2 + Cardinality(NonEmptySections)

\* Returned for a filing with a section of text and an empty section: three
\* calls.
C19_Witness ==
    /\ pc = "returned"
    /\ Len(sections) = 2
    /\ Cardinality(NonEmptySections) = 1
    /\ Len(calls) = 3

\* C20: the text of the assessment call is the summary text of the summary
\* call when that call succeeded, and "No summary available" when it failed.
C20_AssessmentInput ==
    \A k \in CallsOf("assessment") :
        calls[k].text = IF Delivered(ReplyOf("summary"))
                        THEN ReplyOf("summary").content
                        ELSE NoSummaryAvailable

\* The assessment call after a summary call that failed.
C20_Witness ==
    /\ pc = "assessment"
    /\ ~Delivered(ReplyOf("summary"))
    /\ \E k \in CallsOf("assessment") : calls[k].text = NoSummaryAvailable

\* ---------------------------------------------------------------------
\* The length of the prompt each call site sends
\* ---------------------------------------------------------------------

\* text[:100000] in ModelClient.analyze_text
TextLimit == 100000

\* The limits the call sites put on the text they pass.
max_summary_length == 50000

max_length == 50000

max_text_length == 25000

\* len("\n... [content truncated due to length]")
TruncationNoteChars == 38

\* The characters of each template besides the {text} placeholder and the
\* values the f-string interpolates.
SummaryTemplateChars == 324

SectionTemplateChars == 500

AssessmentTemplateChars == 450

ExtractionTemplateChars == 491

\* With ", ".join(self.EVENT_CATEGORIES), which is 275 characters.
DetectionTemplateChars == 1012

\* The frame of analysis_context around the summary and the assessment.
AnalysisContextChars == 112

\* The text link_entities builds, besides the values it interpolates.
LinkTextChars == 650

\* The default template of task type "analysis".
DefaultAnalysisTemplateChars == 420

\* len(text[:n])
Truncated(chars, n) == IF chars <= n THEN chars ELSE n

\* len(prompt_template.format(text=text[:100000])) for a template with
\* template_chars characters besides its placeholder.
FormattedPromptChars(template_chars, text_chars) ==
    template_chars + Truncated(text_chars, TextLimit)

\* analyze_filing, the summary call: filing_text[:max_summary_length] in
\* summary_prompt, which holds the filing type and the filing date.
SummaryPromptChars(in) ==
    FormattedPromptChars(SummaryTemplateChars + in.fields_chars,
                         Truncated(in.text_chars, max_summary_length))

\* _analyze_section: section_text[:max_length], plus the note when the section
\* was longer, in a template that holds the section name and the filing type.
SectionPromptChars(in) ==
    FormattedPromptChars(SectionTemplateChars + in.fields_chars,
                         Truncated(in.text_chars, max_length)
                         + (IF in.text_chars > max_length THEN TruncationNoteChars ELSE 0))

\* analyze_filing, the assessment call: the summary the model returned, whole.
AssessmentPromptChars(in) ==
    FormattedPromptChars(AssessmentTemplateChars + in.fields_chars, in.reply_chars)

\* extract_entities: filing_text[:max_text_length] in a fixed template.
ExtractionPromptChars(in) ==
    FormattedPromptChars(ExtractionTemplateChars,
                         Truncated(in.text_chars, max_text_length))

\* detect_events: filing_text[:max_text_length] in a template that holds the
\* filing type, the typical events and, when the analysis handed over has a
\* summary, that summary and its assessment, whole.
DetectionPromptChars(in) ==
    FormattedPromptChars(DetectionTemplateChars + in.fields_chars
                         + (IF in.reply_chars = 0 THEN 0
                            ELSE AnalysisContextChars + in.reply_chars),
                         Truncated(in.text_chars, max_text_length))

\* link_entities: the text it builds from the current extraction and the
\* historical context is the text argument; the template is the default one.
LinkPromptChars(in) ==
    FormattedPromptChars(DefaultAnalysisTemplateChars,
                         LinkTextChars + in.fields_chars + in.entities_chars)

\* Lengths of a document or a section, around the limits.
TextLengths == {0, 24999, 25000, 25001, 50000, 50001, 100000, 250000}

\* Lengths of what the metadata puts into a template, of a summary the model
\* returned (0: none), and of the rendered entities of the current and the
\* historical filings.
FieldLengths == {0, 14}

ReplyLengths == {0, 2000, 120000}

EntityLengths == {2, 5000, 98000, 200000}

PromptsInit ==
    /\ prompt_inputs \in [text_chars : TextLengths, fields_chars : FieldLengths,
                          reply_chars : ReplyLengths, entities_chars : EntityLengths]
    /\ prompt_site = "none"
    /\ prompt_chars = 0
    /\ AnalysisIdle /\ EmptyStorage /\ BackgroundIdle

\* The call site builds its prompt and the gateway formats it.
SendPrompt(site, chars) ==
    /\ prompt_site = "none"
    /\ prompt_site' = site
    /\ prompt_chars' = chars
    /\ UNCHANGED <<analysisVars, prompt_inputs, storageVars, backgroundVars>>

SummaryPrompt == SendPrompt("summary", SummaryPromptChars(prompt_inputs))

SectionPrompt == SendPrompt("section", SectionPromptChars(prompt_inputs))

AssessmentPrompt == SendPrompt("assessment", AssessmentPromptChars(prompt_inputs))

ExtractionPrompt == SendPrompt("entity extraction", ExtractionPromptChars(prompt_inputs))

DetectionPrompt == SendPrompt("event detection", DetectionPromptChars(prompt_inputs))

LinkPrompt == SendPrompt("link correlation", LinkPromptChars(prompt_inputs))

PromptsNext ==
    \/ SummaryPrompt
    \/ SectionPrompt
    \/ AssessmentPrompt
    \/ ExtractionPrompt
    \/ DetectionPrompt
    \/ LinkPrompt

SpecPrompts == PromptsInit /\ [][PromptsNext]_vars

\* C21: no prompt sent to the model is longer than 100,000 characters, at any
\* call site and for any document text, metadata and historical input.
C21_PromptWithinLimit == prompt_chars <= TextLimit

\* ---------------------------------------------------------------------
\* GCSClient: the store_* functions and the reads
\* ---------------------------------------------------------------------

MaxStores == 3

\* None where a dict is expected.
NoData == [none |-> TRUE]

MaxClock == 1

\* The accession number of the filing the calls are about.
FilingIds == {<<"0000320193", "-", "23", "-", "000077">>}

\* filing_id.replace("-", "")
FormattedId(filing_id) == SelectSeq(filing_id, LAMBDA c : c # "-")

\* datetime.now().strftime("%Y%m%d%H%M%S"): one value per second.
Timestamp(clock) == <<clock>>

\* f"{formatted_id}/{timestamp}_analysis.json" and its likes in the other buckets.
HistoryName(bucket, filing_id, timestamp) ==
    [bucket |-> bucket, folder |-> FormattedId(filing_id), of |-> << >>,
     version |-> timestamp]

\* f"{formatted_id}/latest_analysis.json" and its likes.
LatestName(bucket, filing_id) ==
    [bucket |-> bucket, folder |-> FormattedId(filing_id), of |-> << >>,
     version |-> << >>]

\* f"critical/{formatted_id}_{timestamp}.json" in the events bucket.
CriticalName(filing_id, timestamp) ==
    [bucket |-> "events", folder |-> <<"critical">>, of |-> FormattedId(filing_id),
     version |-> timestamp]

\* blob.upload_from_string(json.dumps(data)): the object of that name is replaced.
Upload(bs, name, data) ==
    {b \in bs : b.name # name} \cup {[name |-> name, data |-> data]}

\* if events_data.get("has_critical_events", False):
HasCriticalCopy(bucket, data) ==
    bucket = "events" /\ Get(data, "has_critical_events", FALSE) = TRUE

\* The uploads of one store_* call, in the order of the code.
Uploads(bucket, filing_id, timestamp, data) ==
    <<[name |-> HistoryName(bucket, filing_id, timestamp), data |-> data],
      [name |-> LatestName(bucket, filing_id), data |-> data]>>
    \o (IF HasCriticalCopy(bucket, data)
        THEN <<[name |-> CriticalName(filing_id, timestamp), data |-> data]>>
        ELSE << >>)

\* The buckets after the first n of the uploads.
RECURSIVE UploadAll(_, _, _)
UploadAll(bs, uploads, n) ==
    IF n = 0 THEN bs
    ELSE LET u == uploads[n]
         IN Upload(UploadAll(bs, uploads, n - 1), u.name, u.data)

\* The timestamped objects of a filing in a bucket.
History(bs, bucket, filing_id) ==
    {b \in bs : /\ b.name.bucket = bucket
                /\ b.name.folder = FormattedId(filing_id)
                /\ b.name.version # << >>}

\* The objects under "critical/".
CriticalIndex(bs) ==
    {b \in bs : b.name.bucket = "events" /\ b.name.folder = <<"critical">>}

\* blob.download_as_text() of the latest object, json.loads of it; NotFound
\* gives None.
LatestOf(bs, bucket, filing_id) ==
    LET found == {b \in bs : b.name = LatestName(bucket, filing_id)}
    IN IF found = {} THEN NoData ELSE (CHOOSE b \in found : TRUE).data

\* retrieve_latest_analysis: None as well when the download raises.
RetrieveLatestAnalysis(bs, filing_id, download_raises) ==
    IF download_raises THEN NoData ELSE LatestOf(bs, "analyses", filing_id)

\* The names the module gcs_client binds at import.
ModuleNames ==
    {"os", "logging", "json", "datetime", "Dict", "List", "Optional", "Any", "Union",
     "asyncio", "storage", "NotFound", "logger", "GCSClient"}

\* The objects of the listing, in the order of their names.
RECURSIVE InNameOrder(_)
InNameOrder(bs) ==
    IF bs = {} THEN << >>
    ELSE LET first == CHOOSE b \in bs :
                          \A c \in bs : b.name.version[1] <= c.name.version[1]
         IN <<first>> \o InNameOrder(bs \ {first})

\* The body of the loop of list_critical_events for one object: the list
\* after it and whether the body raised, in which case the except clause
\* continues with the next object.
ListStep(critical_events, event_data, days_back) ==
    LET event_date_str == Get(event_data, "filing_date", NoData)
    IN IF event_date_str = NoData
       THEN [raised |-> FALSE, events |-> critical_events]
       ELSE IF "days_ago" \notin DOMAIN event_date_str   \* strptime: ValueError
       THEN [raised |-> TRUE, events |-> critical_events]
       ELSE IF "timedelta" \notin ModuleNames             \* NameError
       THEN [raised |-> TRUE, events |-> critical_events]
       ELSE IF event_date_str.days_ago < days_back
       THEN [raised |-> FALSE, events |-> Append(critical_events, event_data)]
       ELSE [raised |-> FALSE, events |-> critical_events]

RECURSIVE ListLoop(_, _, _, _)
ListLoop(listing, critical_events, days_back, limit) ==
    IF listing = << >> THEN critical_events
    ELSE LET step == ListStep(critical_events, Head(listing).data, days_back)
         IN IF ~step.raised /\ Len(step.events) >= limit
            THEN step.events
            ELSE ListLoop(Tail(listing), step.events, days_back, limit)

\* list_critical_events(days_back, limit)
ListCriticalEvents(bs, days_back, limit) ==
    ListLoop(InNameOrder(CriticalIndex(bs)), << >>, days_back, limit)

\* The payloads handed to the store_* functions. A filing_date is a number
\* of days before today, or a text that is no date.
AnalysisPayloads == {[summary |-> "first"], [summary |-> "second"]}

Today == [days_ago |-> 0]

EventPayloads ==
    {[filing_date |-> Today, has_critical_events |-> TRUE],
     [filing_date |-> Today, has_critical_events |-> FALSE],
     [filing_date |-> [days_ago |-> 40], has_critical_events |-> TRUE],
     [filing_date |-> Today]}

EntityPayloads == {[raw_entities |-> << >>]}

LinkPayloads == {[links |-> << >>]}

DaysBack == {1, 30}

Limits == {1, 100}

StorageInit ==
    /\ EmptyStorage
    /\ AnalysisIdle /\ NoPrompt /\ BackgroundIdle

\* One store_* call: the uploads are made in order until one raises, and the
\* call returns True when none did.
Store(bucket, filing_id, data, uploads_done) ==
    LET uploads == Uploads(bucket, filing_id, Timestamp(now), data)
        returned == uploads_done = Len(uploads)
    IN /\ store_count < MaxStores
       /\ read_result = Unset
       /\ uploads_done \in 0..Len(uploads)
       /\ blobs' = UploadAll(blobs, uploads, uploads_done)
       /\ store_count' = store_count + 1
       /\ stored' = IF returned
                    THEN [stored EXCEPT ![bucket] =
                              [count |-> @.count + 1, data |-> data]]
                    ELSE stored
       /\ UNCHANGED <<analysisVars, promptVars, backgroundVars, now, read_result>>

StoreAnalysis ==
    \E filing_id \in FilingIds, data \in AnalysisPayloads, uploads_done \in 0..3 :
        Store("analyses", filing_id, data, uploads_done)

StoreEvents ==
    \E filing_id \in FilingIds, data \in EventPayloads, uploads_done \in 0..3 :
        Store("events", filing_id, data, uploads_done)

StoreEntities ==
    \E filing_id \in FilingIds, data \in EntityPayloads, uploads_done \in 0..3 :
        Store("entities", filing_id, data, uploads_done)

StoreLinks ==
    \E filing_id \in FilingIds, data \in LinkPayloads, uploads_done \in 0..3 :
        Store("links", filing_id, data, uploads_done)

\* A second passes.
Tick ==
    /\ now < MaxClock
    /\ read_result = Unset
    /\ now' = now + 1
    /\ UNCHANGED <<analysisVars, promptVars, backgroundVars, blobs, store_count, stored,
                   read_result>>

RetrieveLatestAnalysisCall ==
    \E filing_id \in FilingIds, download_raises \in BOOLEAN :
        /\ read_result = Unset
        /\ read_result' = [op |-> "retrieve_latest_analysis", filing_id |-> filing_id,
                           raised |-> download_raises,
                           returned |-> RetrieveLatestAnalysis(blobs, filing_id,
                                                               download_raises)]
        /\ UNCHANGED <<analysisVars, promptVars, backgroundVars, blobs, now, store_count, stored>>

ListCriticalEventsCall ==
    \E days_back \in DaysBack, limit \in Limits :
        /\ read_result = Unset
        /\ read_result' = [op |-> "list_critical_events", days_back |-> days_back,
                           limit |-> limit,
                           returned |-> ListCriticalEvents(blobs, days_back, limit)]
        /\ UNCHANGED <<analysisVars, promptVars, backgroundVars, blobs, now, store_count, stored>>

StorageNext ==
    \/ StoreAnalysis
    \/ StoreEvents
    \/ StoreEntities
    \/ StoreLinks
    \/ Tick
    \/ RetrieveLatestAnalysisCall
    \/ ListCriticalEventsCall

SpecStorage == StorageInit /\ [][StorageNext]_vars

\* C22: after any sequence of store_analysis calls for one filing, the latest
\* entry holds the payload of the most recent successful store, which
\* retrieve_latest_analysis returns, and the number of history entries is the
\* number of successful stores.
C22_LatestAndHistory ==
    \A filing_id \in FilingIds :
        /\ stored["analyses"].count > 0
             => LatestOf(blobs, "analyses", filing_id) = stored["analyses"].data
        /\ (/\ read_result # Unset
            /\ read_result.op = "retrieve_latest_analysis"
            /\ ~read_result.raised
            /\ stored["analyses"].count > 0)
             => read_result.returned = stored["analyses"].data
        /\ Cardinality(History(blobs, "analyses", filing_id)) = stored["analyses"].count

\* The timestamped events objects: the EventResults that are stored.
StoredEventResults ==
    UNION {History(blobs, "events", filing_id) : filing_id \in FilingIds}

\* C23: after any sequence of store_events calls, the critical index holds an
\* entry for a stored EventResult if and only if its has_critical_events is
\* true.
C23_CriticalIndexIffFlag ==
    \A b \in StoredEventResults :
        (\E c \in CriticalIndex(blobs) :
             /\ c.name.of = b.name.folder
             /\ c.name.version = b.name.version)
        <=> Get(b.data, "has_critical_events", FALSE) = TRUE

\* The critical EventResults whose filing date lies within the last days_back days.
RecentCritical(days_back) ==
    {b.data : b \in {c \in CriticalIndex(blobs) :
                         LET date == Get(c.data, "filing_date", NoData)
                         IN "days_ago" \in DOMAIN date /\ date.days_ago < days_back}}

\* C24: list_critical_events(days_back, limit) returns the EventResults of the
\* critical index whose filing date lies within the last days_back days, at
\* most limit of them, so one that was stored with the date of today is
\* returned.
C24_ListsRecentCritical ==
    (read_result # Unset /\ read_result.op = "list_critical_events")
    => LET recent == RecentCritical(read_result.days_back)
           returned == read_result.returned
       IN /\ Len(returned) <= read_result.limit
          /\ \A i \in 1..Len(returned) : returned[i] \in recent
          /\ (recent # {} /\ read_result.limit > 0) => returned # << >>

\* C30: a store_* call that returns False has written nothing.
C30_FailedStoreWritesNothing ==
    [][(store_count' # store_count /\ stored' = stored) => blobs' = blobs]_vars

\* ---------------------------------------------------------------------
\* SECRSSFetcher: process_feed and monitor_feeds
\* ---------------------------------------------------------------------

\* key_data = f"{entry.id}_{entry.updated if hasattr(entry, 'updated') else ''}"
KeyData(entry) ==
    entry.id \o <<"_">> \o (IF "updated" \in DOMAIN entry THEN entry.updated ELSE << >>)

\* An earlier version for comparison: the key is the id alone.
EntryHash_IgnoresUpdated(entry) == entry.id

\* _entry_hash: the MD5 digest of key_data, which is taken to be different
\* for different keys.
EntryHash(entry) == KeyData(entry)

\* The loop over feed.entries with _is_new_entry: the entries whose hash is
\* not among the hashes seen, each hash being added as its entry is met.
RECURSIVE NewEntries(_, _)
NewEntries(seen, entries) ==
    IF entries = << >> THEN << >>
    ELSE LET entry == Head(entries)
         IN IF EntryHash(entry) \in seen
            THEN NewEntries(seen, Tail(entries))
            ELSE <<entry>> \o NewEntries(seen \cup {EntryHash(entry)}, Tail(entries))

Range(seq) == {seq[i] : i \in 1..Len(seq)}

\* What fetch_feed returns: None for a status other than 200 or an
\* exception, else the parsed feed with its entries.
NoFeed == [none |-> TRUE]

Feed(entries) == [entries |-> entries]

\* process_feed(feed_name, feed_url, callback) with what fetch_feed returned:
\* the entries are marked seen before the callback is awaited.
ProcessFeed(feed_name, feed) ==
    IF feed = NoFeed
    THEN UNCHANGED <<last_seen_entries, delivered, fetched>>
    ELSE LET new_entries == NewEntries(last_seen_entries[feed_name], feed.entries)
         IN /\ last_seen_entries' =
                  [last_seen_entries EXCEPT ![feed_name] =
                       @ \cup {EntryHash(entry) : entry \in Range(feed.entries)}]
            /\ delivered' =
                  [delivered EXCEPT ![feed_name] =
                       [entry \in Entries |->
                            IF entry \in Range(new_entries) THEN @[entry] + 1
                            ELSE @[entry]]]
            /\ fetched' = [fetched EXCEPT ![feed_name] = @ \cup Range(feed.entries)]

\* Whether process_feed ends with the exception of the callback.
ProcessFeedRaises(feed_name, feed, callback_raises) ==
    /\ feed # NoFeed
    /\ NewEntries(last_seen_entries[feed_name], feed.entries) # << >>
    /\ callback_raises

\* if "{cik}" not in feed_url
MonitoredFeeds == {feed_name \in FeedNames : "{cik}" \notin Range(RSS_FEEDS[feed_name])}

MaxEntries == 2

\* What a poll of a feed can find.
FeedContents == {Feed(entries) : entries \in TextsUpTo(Entries, MaxEntries)}

FeedsInit ==
    /\ NewFetcher
    /\ MonitorIdle
    /\ AnalysisIdle /\ NoPrompt /\ EmptyStorage /\ NoConnections /\ NoProcess

\* One call of process_feed for a feed.
PollFeed ==
    \E feed_name \in MonitoredFeeds, feed \in FeedContents \cup {NoFeed} :
        /\ ProcessFeed(feed_name, feed)
        /\ UNCHANGED <<analysisVars, promptVars, storageVars, lost, monitorVars, streamVars,
                       processVars>>

FeedsNext == PollFeed

SpecFeeds == FeedsInit /\ [][FeedsNext]_vars

\* C26: over any sequence of polls, process_feed passes to the callback
\* exactly the entries whose (id, updated) pair was not seen before on that
\* feed: every entry fetched on a feed was passed on once, none twice, and
\* none that the feed did not hold.
C26_EachPairOnce ==
    \A feed_name \in FeedNames : \A entry \in Entries :
        delivered[feed_name][entry] = (IF entry \in fetched[feed_name] THEN 1 ELSE 0)

\* The same id was passed on with two updated values on one feed, while
\* the other feed has passed on nothing of it.
C26_Witness ==
    \E entry \in Entries, other \in Entries :
        /\ "updated" \in DOMAIN entry /\ "updated" \in DOMAIN other
        /\ entry.id = other.id /\ entry.updated # other.updated
        /\ delivered["latest_filings"][entry] = 1
        /\ delivered["latest_filings"][other] = 1
        /\ delivered["form_4"][entry] = 0
        /\ fetched["form_4"] # {}

\* ------------------------------------------------------------ monitor_feeds

MonitorInit ==
    /\ NewFetcher
    /\ MonitorIdle
    /\ AnalysisIdle /\ NoPrompt /\ EmptyStorage /\ NoConnections /\ NoProcess

\* What a poll finds while the feeds are monitored.
MonitoredContents ==
    {Feed(<<[id |-> <<"a">>]>>),
     Feed(<<[id |-> <<"a">>], [id |-> <<"a">>, updated |-> <<"1">>]>>)}

\* The top of the loop, at the start and after asyncio.sleep: one
\* process_feed task for every feed whose URL has no {cik}.
StartRound ==
    /\ monitor_pc \in {"start", "sleep"}
    /\ monitor_pc' = "gather"
    /\ feed_tasks' = [feed_name \in FeedNames |->
                          IF feed_name \in MonitoredFeeds THEN "running" ELSE "none"]
    /\ UNCHANGED <<analysisVars, promptVars, storageVars, fetcherVars, streamVars,
                   processVars>>

\* A process_feed task runs: the fetch ends, the new entries are marked seen
\* and handed to the callback, which returns or raises. The task runs on
\* after asyncio.gather has raised for another task.
FeedTask(feed_name) ==
    \E feed \in MonitoredContents \cup {NoFeed}, callback_raises \in BOOLEAN :
        /\ feed_tasks[feed_name] = "running"
        /\ ProcessFeed(feed_name, feed)
        /\ LET new_entries == IF feed = NoFeed THEN << >>
                              ELSE NewEntries(last_seen_entries[feed_name], feed.entries)
           IN lost' = [lost EXCEPT ![feed_name] =
                           IF callback_raises THEN @ \cup Range(new_entries)
                           ELSE @ \ Range(new_entries)]
        /\ feed_tasks' = [feed_tasks EXCEPT ![feed_name] =
                              IF ProcessFeedRaises(feed_name, feed, callback_raises)
                              THEN "raised" ELSE "done"]
        /\ UNCHANGED <<analysisVars, promptVars, storageVars, monitor_pc, streamVars,
                       processVars>>

\* await asyncio.gather(*tasks) returns when every task has returned; the
\* loop goes on to asyncio.sleep.
GatherTasksReturn ==
    /\ monitor_pc = "gather"
    /\ \A feed_name \in MonitoredFeeds : feed_tasks[feed_name] = "done"
    /\ monitor_pc' = "sleep"
    /\ UNCHANGED <<analysisVars, promptVars, storageVars, fetcherVars, feed_tasks,
                   streamVars, processVars>>

\* await asyncio.gather(*tasks) raises the exception of the first task that
\* raised; nothing in monitor_feeds or start_rss_monitoring catches it.
GatherTasksRaise ==
    /\ monitor_pc = "gather"
    /\ \E feed_name \in MonitoredFeeds : feed_tasks[feed_name] = "raised"
    /\ monitor_pc' = "raised"
    /\ UNCHANGED <<analysisVars, promptVars, storageVars, fetcherVars, feed_tasks,
                   streamVars, processVars>>

MonitorNext ==
    \/ StartRound
    \/ \E feed_name \in MonitoredFeeds : FeedTask(feed_name)
    \/ GatherTasksReturn
    \/ GatherTasksRaise

SpecMonitor == MonitorInit /\ [][MonitorNext]_vars

\* The event loop runs every task that can run: a fetch ends, gather ends
\* when its tasks have, the sleep ends.
SpecMonitorFair ==
    /\ SpecMonitor
    /\ WF_vars(StartRound)
    /\ \A feed_name \in MonitoredFeeds : WF_vars(FeedTask(feed_name))
    /\ WF_vars(GatherTasksReturn)
    /\ WF_vars(GatherTasksRaise)

\* C27: monitor_feeds polls in rounds forever, also when a fetch fails or the
\* callback raises for a feed, and an entry that was marked seen in a round
\* whose callback raised is handed to the callback again in a later round.
C27_PollsForever ==
    /\ []<>(monitor_pc = "gather")
    /\ \A feed_name \in MonitoredFeeds : \A entry \in Entries :
           (entry \in lost[feed_name]) ~> (entry \notin lost[feed_name])

\* ---------------------------------------------------------------------
\* GET /stream: event_generator
\* ---------------------------------------------------------------------

MaxHeartbeats == 2

\* connection_id = id(asyncio): the identity of the module asyncio, which is
\* one object for the life of the process.
ConnectionId(c) == "id(asyncio)"

Open == {c \in Connections : connections[c].state = "open"}

StreamInit ==
    /\ NoConnections
    /\ AnalysisIdle /\ NoPrompt /\ EmptyStorage
    /\ NewFetcher /\ MonitorIdle /\ NoProcess

streamFrame == <<analysisVars, promptVars, storageVars, fetcherVars, monitorVars,
                 processVars>>

\* A client connects: the generator registers its ID and yields
\* connection_established.
Connect(c) ==
    /\ connections[c].state = "none"
    /\ active_connections' = active_connections \cup {ConnectionId(c)}
    /\ connections' = [connections EXCEPT ![c].state = "open"]
    /\ UNCHANGED streamFrame

\* asyncio.sleep(10) returns: the loop breaks when the ID is not registered,
\* else a heartbeat is yielded.
Heartbeat(c) ==
    /\ connections[c].state = "open"
    /\ IF ConnectionId(c) \notin active_connections
       THEN connections' = [connections EXCEPT ![c].state = "ended"]
       ELSE /\ connections[c].heartbeats < MaxHeartbeats
            /\ connections' = [connections EXCEPT ![c].heartbeats = @ + 1]
    /\ UNCHANGED <<active_connections, streamFrame>>

\* The client goes away while the generator sleeps: CancelledError is raised
\* in it, and set.remove raises KeyError when the ID is not registered.
Cancel(c) ==
    /\ connections[c].state = "open"
    /\ active_connections' = active_connections \ {ConnectionId(c)}
    /\ connections' = [connections EXCEPT ![c].state =
                           IF ConnectionId(c) \in active_connections
                           THEN "cancelled" ELSE "KeyError"]
    /\ UNCHANGED streamFrame

\* The generator is closed at a yield: only the finally clause runs.
Close(c) ==
    /\ connections[c].state = "open"
    /\ active_connections' = active_connections \ {ConnectionId(c)}
    /\ connections' = [connections EXCEPT ![c].state = "closed"]
    /\ UNCHANGED streamFrame

StreamNext ==
    \E c \in Connections :
        \/ Connect(c)
        \/ Heartbeat(c)
        \/ Cancel(c)
        \/ Close(c)

SpecStream == StreamInit /\ [][StreamNext]_vars

\* C28: every open connection is registered under an ID of its own, so that
\* closing or cancelling one connection neither removes the registration of
\* another nor ends its heartbeat loop, and active_connections is empty
\* exactly when no connection is open.
C28_OwnRegistration ==
    /\ \A c \in Open : ConnectionId(c) \in active_connections
    /\ \A c \in Open, d \in Open : c # d => ConnectionId(c) # ConnectionId(d)
    /\ \A c \in Connections : connections[c].state \notin {"ended", "KeyError"}
    /\ active_connections = {} <=> Open = {}

\* ---------------------------------------------------------------------
\* process_filing_analysis
\* ---------------------------------------------------------------------

\* The metadata of the filing: without a cik, with a cik that is a string,
\* and with one that is a number.
ProcessMetadata ==
    {[form_type |-> "8-K"],
     [form_type |-> "8-K", cik |-> [str |-> "0000320193"]],
     [form_type |-> "8-K", cik |-> [int |-> 320193]]}

AnalysisTypes == {"full", "summary", "events", "entities", "other"}

\* get_company_info(cik): cik.zfill(10) stands before the try, so a cik that
\* is no string raises; inside the try a status other than 200 and an
\* exception both give {}.
GetCompanyInfoRaises(cik) == "str" \notin DOMAIN cik

EmptyInfo == [empty |-> TRUE]

GetCompanyInfo(cik, response) ==
    IF response = "200" THEN [cik |-> cik, name |-> "Apple Inc."] ELSE EmptyInfo

Responses == {"200", "404", "exception"}

\* An entry of the log: a call with whether it returned (for a store_*
\* function: what it returned), or a broadcast.
Called(name, ok) == [op |-> "call", name |-> name, ok |-> ok]

Broadcast(event) == [op |-> "broadcast", name |-> event, ok |-> TRUE]

\* except Exception as e: broadcast_event({"event": "analysis_error", ...})
Failed(name) == <<Called(name, FALSE), Broadcast("analysis_error")>>

ProcessInit ==
    /\ process_args \in [metadata : ProcessMetadata, analysis_type : AnalysisTypes]
    /\ process_pc = "lookup"
    /\ company_info = Unset
    /\ process_log = << >>
    /\ AnalysisIdle /\ NoPrompt /\ EmptyStorage
    /\ NewFetcher /\ MonitorIdle /\ NoConnections

processFrame == <<analysisVars, promptVars, storageVars, fetcherVars, monitorVars,
                  streamVars, process_args>>

\* company_info = None; if "cik" in metadata: company_info = await
\* edgar_client.get_company_info(metadata["cik"])
LookupCompany ==
    /\ process_pc = "lookup"
    /\ IF "cik" \notin DOMAIN process_args.metadata
       THEN /\ company_info' = NoData
            /\ process_pc' = "analysis"
            /\ UNCHANGED process_log
       ELSE IF GetCompanyInfoRaises(process_args.metadata.cik)
       THEN /\ process_log' = process_log \o Failed("get_company_info")
            /\ process_pc' = "returned"
            /\ UNCHANGED company_info
       ELSE \E response \in Responses :
            /\ company_info' = GetCompanyInfo(process_args.metadata.cik, response)
            /\ process_log' = Append(process_log, Called("get_company_info", TRUE))
            /\ process_pc' = "analysis"
    /\ UNCHANGED processFrame

\* if analysis_type in ["full", "summary"]: analyze_filing, store_analysis
\* (its return value is dropped), broadcast analysis_complete.
AnalysisStep ==
    /\ process_pc = "analysis"
    /\ IF process_args.analysis_type \in {"full", "summary"}
       THEN \E raises \in BOOLEAN, stored_ok \in BOOLEAN :
            IF raises
            THEN /\ process_log' = process_log \o Failed("analyze_filing")
                 /\ process_pc' = "returned"
            ELSE /\ process_log' = process_log \o
                                   <<Called("analyze_filing", TRUE),
                                     Called("store_analysis", stored_ok),
                                     Broadcast("analysis_complete")>>
                 /\ process_pc' = "events"
       ELSE process_pc' = "events" /\ UNCHANGED process_log
    /\ UNCHANGED <<processFrame, company_info>>

\* if analysis_type in ["full", "events"]: detect_events, store_events,
\* broadcast events_detected.
EventsStep ==
    /\ process_pc = "events"
    /\ IF process_args.analysis_type \in {"full", "events"}
       THEN \E raises \in BOOLEAN, stored_ok \in BOOLEAN :
            IF raises
            THEN /\ process_log' = process_log \o Failed("detect_events")
                 /\ process_pc' = "returned"
            ELSE /\ process_log' = process_log \o
                                   <<Called("detect_events", TRUE),
                                     Called("store_events", stored_ok),
                                     Broadcast("events_detected")>>
                 /\ process_pc' = "entities"
       ELSE process_pc' = "entities" /\ UNCHANGED process_log
    /\ UNCHANGED <<processFrame, company_info>>

\* if analysis_type in ["full", "entities"]: extract_entities,
\* store_entities, link_entities with no history, store_links, broadcast
\* entities_linked; then the function returns.
EntitiesStep ==
    /\ process_pc = "entities"
    /\ process_pc' = "returned"
    /\ IF process_args.analysis_type \in {"full", "entities"}
       THEN \E raises \in BOOLEAN, entities_ok \in BOOLEAN, links_ok \in BOOLEAN :
            IF raises
            THEN process_log' = process_log \o Failed("extract_entities")
            ELSE process_log' = process_log \o
                                <<Called("extract_entities", TRUE),
                                  Called("store_entities", entities_ok),
                                  Called("link_entities", TRUE),
                                  Called("store_links", links_ok),
                                  Broadcast("entities_linked")>>
       ELSE UNCHANGED process_log
    /\ UNCHANGED <<processFrame, company_info>>

ProcessNext ==
    \/ LookupCompany
    \/ AnalysisStep
    \/ EventsStep
    \/ EntitiesStep

SpecProcess == ProcessInit /\ [][ProcessNext]_vars

\* The calls of the log with the given name.
CallsNamed(name) ==
    {i \in 1..Len(process_log) :
         process_log[i].op = "call" /\ process_log[i].name = name}

\* The steps analysis_type selects, by their first call, in order.
SelectedSteps(analysis_type) ==
    (IF analysis_type \in {"full", "summary"} THEN <<"analyze_filing">> ELSE << >>)
    \o (IF analysis_type \in {"full", "events"} THEN <<"detect_events">> ELSE << >>)
    \o (IF analysis_type \in {"full", "entities"} THEN <<"extract_entities">> ELSE << >>)

\* C25: when the metadata has no cik, or the lookup gives nothing or fails,
\* the steps that analysis_type selects still run.
C25_LookupNeverBlocks ==
    LET selected == SelectedSteps(process_args.analysis_type)
    IN (process_pc = "returned" /\ selected # << >>)
       => CallsNamed(Head(selected)) # {}

\* The store calls a completion event stands for.
StoresOf(event) ==
    CASE event = "analysis_complete" -> {"store_analysis"}
      [] event = "events_detected" -> {"store_events"}
      [] event = "entities_linked" -> {"store_entities", "store_links"}
      [] OTHER -> {}

\* The calls that raised.
RaisedCalls == {i \in 1..Len(process_log) :
                    /\ process_log[i].op = "call"
                    /\ process_log[i].name \notin {"store_analysis", "store_events",
                                                   "store_entities", "store_links"}
                    /\ ~process_log[i].ok}

ErrorEvents == {i \in 1..Len(process_log) : process_log[i] = Broadcast("analysis_error")}

\* C29: the steps run as analysis_type selects, in order; a completion event
\* follows the store of its step and is broadcast only when that store
\* succeeded; an exception broadcasts one analysis_error and ends the call.
C29_StepsStoresEvents ==
    process_pc = "returned"
    => /\ \A i \in 1..Len(process_log) :
              process_log[i].op = "broadcast"
              => \A store \in StoresOf(process_log[i].name) :
                     \E j \in CallsNamed(store) : j < i /\ process_log[j].ok
       /\ Cardinality(ErrorEvents) = (IF RaisedCalls = {} THEN 0 ELSE 1)
       /\ \A i \in RaisedCalls : i = Len(process_log) - 1
       /\ RaisedCalls = {}
            => LET selected == SelectedSteps(process_args.analysis_type)
               IN /\ \A name \in {"analyze_filing", "detect_events", "extract_entities"} :
                         Cardinality(CallsNamed(name))
                         = (IF name \in Range(selected) THEN 1 ELSE 0)
                  /\ \A i \in 1..Len(selected), j \in 1..Len(selected) :
                         i < j => \A a \in CallsNamed(selected[i]),
                                     b \in CallsNamed(selected[j]) : a < b

====
